---------------------------- MODULE Spec2Model ----------------------------
(***************************************************************************)
(* Model of MSDAC Systems "Participants":                                  *)
(*   - ext/parser.py     ParticipantParser (fmtStr, parse)                 *)
(*   - participants.py   the role/name pool (DCFG['POOL'], the start-up    *)
(*                       globals RLS and NMS), the field rows of the main  *)
(*                       window, the export handlers and the member list   *)
(*                       of the settings window.                           *)
(*                                                                         *)
(* A Python str is modelled as a sequence of one-character strings, so     *)
(* that splitting, stripping, casing and comparison are computed and not   *)
(* assumed.  Characters are ASCII; the line-break characters are "\n" and  *)
(* "\r", the white-space characters are " ", "\t", "\n" and "\r".          *)
(*                                                                         *)
(* The specifications of the module:                                       *)
(*   Spec         one run of the program: the fields are edited, inserted  *)
(*                and removed, and exported                                *)
(*   SpecMembers  one run of the program: the member list is edited,       *)
(*                saved and imported, the names are edited and exported    *)
(*   SpecMerge    the pool merge of an export, for any fields and pool     *)
(*   SpecParse    ParticipantParser.parse run line by line on a text       *)
(*   SpecFmt      ParticipantParser.fmtStr applied once and twice          *)
(*   SpecEdit     the Members tab: search, add, rename, remove, save       *)
(*   SpecName     Members.adjustNameFormat applied once and twice          *)
(*   SpecLoad     Data.check, Data.load and Fields.setup                   *)
(*   SpecFields   Fields.setup and the buttons of the rows: insert,        *)
(*                remove, lock and unlock, set active                      *)
(*   SpecPool     the Members tab started with a pool of distinct names    *)
(*   SpecLogs     FileManager.deleteLogs and the loop of deleteOldest      *)
(***************************************************************************)
EXTENDS Integers, Sequences, FiniteSets, TLC

VARIABLES
    (* ---- participants.py ---- *)
    RLS,             \* module global RLS: the ROLES list read at start-up
    NMS,             \* module global NMS: the NAMES list read at start-up
    POOL,            \* DCFG['POOL'] = [ROLES |-> ..., NAMES |-> ...], what PDB.dump() persists
    CBX_RLS,         \* Fields.CBX_RLS: currentText() of every role combo box, in row order
    CBX_NMS,         \* Fields.CBX_NMS: currentText() of every name combo box, in row order
    FIELDS,          \* Fields.FIELDS
    LST_MEM_MEMBERS, \* UIB.LST_MEM_MEMBERS: item texts of the member list widget
    CACHED_MEMBERS,  \* Members.CACHED_MEMBERS
    SAVE_STATE,      \* Members.SAVE_STATE
    poolWriter,      \* the handler that wrote DCFG['POOL'] last
    LNE_MEM_SEARCHADD, \* UIB.LNE_MEM_SEARCHADD.text(): the search/add bar
    LAST_INPUT,      \* Members.LAST_INPUT
    BTN_MEM_ADD,     \* UIB.BTN_MEM_ADD.isEnabled()
    DLG_RENAME,      \* editMember's dialog: open or not, the selected row, OLD_NAME
    NAMES_IS_CACHED, \* DCFG['POOL']['NAMES'] and Members.CACHED_MEMBERS are one list object
    memOp,           \* the Members handler that ran last, the text it read from
                     \* its line edit, its result and what getSimilarNames
                     \* returned to it
    (* ---- ext/parser.py: parse ---- *)
    SOURCE,          \* parse: SOURCE
    CLEAN,           \* parse: CLEAN
    i,               \* parse: index of the line the loop is at
    RESULT,          \* parse: RESULT
    pc,              \* parse: position ("start", "loop", "done", "IndexError")
    (* ---- ext/parser.py: fmtStr ---- *)
    fmtIn,           \* fmtStr: argument string
    fmtMode,         \* fmtStr: argument mode (0 = ROLE, 1 = NAME)
    fmtOut,          \* fmtStr(fmtIn, fmtMode)
    fmtOut2,         \* fmtStr(fmtOut, fmtMode)
    fmtPc,           \* "in", "once", "twice"
    (* ---- participants.py: Members.adjustNameFormat ---- *)
    nameIn,          \* adjustNameFormat: argument name
    NAME1,           \* adjustNameFormat(name)
    NAME2,           \* adjustNameFormat(NAME1)
    namePc,          \* "in", "once", "twice"
    (* ---- participants.py: Data, start-up ---- *)
    FILE_DATA,       \* the file SYS.FILE_DATA: missing, not JSON, or JSON with a POOL
    DATA,            \* what Data.load returned (PDB.DATA, DCFG)
    loadPc,          \* "check", "load", "setup", "done"
    generated,       \* how often generateDefault has written the file
    (* ---- participants.py: FileManager ---- *)
    LOG_FILES,       \* the *.log files of SYS.DIR_LOG, each named by its access time
    LOG_DENIED,      \* the log files os.remove cannot remove (PermissionError)
    LOG_GONE,        \* the log files another process removes before os.remove (FileNotFoundError)
    deleteAll,       \* deleteLogs: argument deleteAll
    delPc,           \* "idle", "call", "loop", "remove", "done"
    delLast,         \* what the last os.remove of deleteOldest did
    (* ---- participants.py: Fields, the buttons of the rows ---- *)
    BTN_ATVS,        \* Fields.BTN_ATVS: objectName() of every active button, in row order
    BTN_INSS,        \* Fields.BTN_INSS: isEnabled() of every insert button, in row order
    BTN_REMS,        \* Fields.BTN_REMS: objectName() of every remove button, in row order
    REM_ENABLED,     \* Fields.BTN_REMS: isEnabled() of every remove button, in row order
    PREV_ACTIVE,     \* Fields.PREV_ACTIVE: None or a 0-based index
    ACTIVE_TXT,      \* the files Role.txt and Name.txt written by Export.fromActiveField
    fldOp            \* the Fields handler that ran last and its result

appVars   == <<RLS, NMS, POOL, CBX_RLS, CBX_NMS, FIELDS,
               LST_MEM_MEMBERS, CACHED_MEMBERS, SAVE_STATE, poolWriter>>
parseVars == <<SOURCE, CLEAN, i, RESULT, pc>>
fmtVars   == <<fmtIn, fmtMode, fmtOut, fmtOut2, fmtPc>>
memVars   == <<LNE_MEM_SEARCHADD, LAST_INPUT, BTN_MEM_ADD, DLG_RENAME, NAMES_IS_CACHED, memOp>>
nameVars  == <<nameIn, NAME1, NAME2, namePc>>
loadVars  == <<FILE_DATA, DATA, loadPc, generated>>
logVars   == <<LOG_FILES, LOG_DENIED, LOG_GONE, deleteAll, delPc, delLast>>
fldVars   == <<BTN_ATVS, BTN_INSS, BTN_REMS, REM_ENABLED, PREV_ACTIVE, ACTIVE_TXT, fldOp>>
pureVars  == <<nameVars, loadVars, logVars>>
vars      == <<appVars, memVars, parseVars, fmtVars, pureVars, fldVars>>

(***************************************************************************)
(* Bounds of the model.                                                    *)
(***************************************************************************)
MaxChunks == 5       \* an input text of parse is made of at most MaxChunks chunks
MaxTokens == 2       \* an input of fmtStr is made of at most MaxTokens words
MaxFields == 2       \* the fields are inserted up to MaxFields rows
MaxPool   == 2       \* the lists read at start-up or imported hold at most MaxPool entries
MaxMembers == 2      \* members are added up to a list of MaxMembers entries
MaxLogs   == 12      \* the log directory holds at most MaxLogs log files

(***************************************************************************)
(* Python str primitives.                                                  *)
(***************************************************************************)
LowerCase == <<"a","b","c","d","e","f","g","h","i","j","k","l","m",
               "n","o","p","q","r","s","t","u","v","w","x","y","z">>
UpperCase == <<"A","B","C","D","E","F","G","H","I","J","K","L","M",
               "N","O","P","Q","R","S","T","U","V","W","X","Y","Z">>

Range(s) == {s[k] : k \in DOMAIN s}

IsLower(c) == \E k \in DOMAIN LowerCase : LowerCase[k] = c
IsUpper(c) == \E k \in DOMAIN UpperCase : UpperCase[k] = c
\* the character class [A-Za-z] of the regular expressions
IsLetter(c) == IsLower(c) \/ IsUpper(c)

\* str.upper() / str.lower() on one character
UpperChar(c) == IF IsLower(c) THEN UpperCase[CHOOSE k \in DOMAIN LowerCase : LowerCase[k] = c] ELSE c
LowerChar(c) == IF IsUpper(c) THEN LowerCase[CHOOSE k \in DOMAIN UpperCase : UpperCase[k] = c] ELSE c

\* str.upper() / str.lower()
Upper(s) == [k \in DOMAIN s |-> UpperChar(s[k])]
Lower(s) == [k \in DOMAIN s |-> LowerChar(s[k])]

\* the characters str.strip() and str.split() treat as white space
IsSpace(c) == c \in {" ", "\t", "\n", "\r"}

\* s[a:] and s[:b] with 0-based Python slice bounds
SliceFrom(s, a) == IF a >= Len(s) THEN <<>> ELSE SubSeq(s, a + 1, Len(s))
SliceTo(s, b)   == IF b >= Len(s) THEN s ELSE SubSeq(s, 1, b)

RECURSIVE LStrip(_)
LStrip(s) == IF s # <<>> /\ IsSpace(Head(s)) THEN LStrip(Tail(s)) ELSE s

RECURSIVE RStrip(_)
RStrip(s) == IF s # <<>> /\ IsSpace(s[Len(s)]) THEN RStrip(SubSeq(s, 1, Len(s) - 1)) ELSE s

\* str.strip()
Strip(s) == RStrip(LStrip(s))

\* str.replace(c, ''): every occurrence of the character c removed
RemoveChar(s, c) == SelectSeq(s, LAMBDA x : x # c)

\* c in s
Contains(s, c) == \E k \in DOMAIN s : s[k] = c

\* re.sub(r"[^A-Za-z]+", '', s)
LettersOnly(s) == SelectSeq(s, IsLetter)

RECURSIVE SplitFrom(_, _, _, _)
SplitFrom(s, d, k, cur) ==
    IF k > Len(s) THEN <<cur>>
    ELSE IF s[k] = d THEN <<cur>> \o SplitFrom(s, d, k + 1, <<>>)
    ELSE SplitFrom(s, d, k + 1, Append(cur, s[k]))

\* str.split(d) for a one-character separator d: always at least one part
SplitOn(s, d) == SplitFrom(s, d, 1, <<>>)

RECURSIVE SplitWsFrom(_, _, _)
SplitWsFrom(s, k, cur) ==
    IF k > Len(s) THEN (IF cur = <<>> THEN <<>> ELSE <<cur>>)
    ELSE IF IsSpace(s[k])
         THEN (IF cur = <<>> THEN <<>> ELSE <<cur>>) \o SplitWsFrom(s, k + 1, <<>>)
         ELSE SplitWsFrom(s, k + 1, Append(cur, s[k]))

\* str.split() without argument: the words between runs of white space
SplitWs(s) == SplitWsFrom(s, 1, <<>>)

RECURSIVE SplitLinesFrom(_, _, _)
SplitLinesFrom(s, k, cur) ==
    IF k > Len(s) THEN (IF cur = <<>> THEN <<>> ELSE <<cur>>)
    ELSE IF s[k] = "\n" THEN <<cur>> \o SplitLinesFrom(s, k + 1, <<>>)
    ELSE IF s[k] = "\r"
         THEN <<cur>> \o SplitLinesFrom(s, IF k < Len(s) /\ s[k + 1] = "\n" THEN k + 2 ELSE k + 1, <<>>)
         ELSE SplitLinesFrom(s, k + 1, Append(cur, s[k]))

\* str.splitlines(): breaks at "\n", "\r" and "\r\n", no empty last line
SplitLines(s) == SplitLinesFrom(s, 1, <<>>)

RECURSIVE Join(_, _)
\* sep.join(parts)
Join(parts, sep) ==
    IF parts = <<>> THEN <<>>
    ELSE IF Len(parts) = 1 THEN parts[1]
    ELSE parts[1] \o sep \o Join(Tail(parts), sep)

(***************************************************************************)
(* ext/parser.py: ParticipantParser                                        *)
(***************************************************************************)
NL    == "\n"
DELIM == ":"
ROLE_MODE == 0
NAME_MODE == 1

\* variant: one exclusion list shared by roles and names
FILTER_EXCLUSIONS_Shared ==
    << {<<"A", "Y">>, <<"t", "o">>, <<"T", "B", "A">>}, {<<"A", "Y">>, <<"t", "o">>, <<"T", "B", "A">>} >>

\* FILTER_EXCLUSIONS = ['AY', 'to'], ['TBA']      (Role, Name)
FILTER_EXCLUSIONS == << {<<"A", "Y">>, <<"t", "o">>}, {<<"T", "B", "A">>} >>

\* f"{word[:1].upper()}{word[1:].lower()}"
NameCase(word) == Upper(SliceTo(word, 1)) \o Lower(SliceFrom(word, 1))

\* variant: an excluded word is emitted lower-cased (as Core.adjustRoleFormat does)
fmtWord_LowerExcluded(word, mode) ==
    IF mode = ROLE_MODE
    THEN (IF word \notin FILTER_EXCLUSIONS[1] THEN NameCase(word) ELSE Lower(word))
    ELSE LET w == RemoveChar(word, "@")
         IN  IF w \notin FILTER_EXCLUSIONS[2] THEN NameCase(w) ELSE Lower(w)

\* the body of the loop of fmtStr for one word
fmtWord(word, mode) ==
    IF mode = ROLE_MODE
    THEN (IF word \notin FILTER_EXCLUSIONS[1] THEN NameCase(word) ELSE word)
    ELSE LET w == RemoveChar(word, "@")
         IN  IF w \notin FILTER_EXCLUSIONS[2] THEN NameCase(w) ELSE w

fmtStr(string, mode) ==
    LET words == SplitWs(string)
    IN  Join([k \in DOMAIN words |-> fmtWord(words[k], mode)], <<" ">>)

\* CLEAN = '\n'.join([line.strip() for line in SOURCE.splitlines()])
CleanOf(source) ==
    LET lines == SplitLines(source)
    IN  Join([k \in DOMAIN lines |-> Strip(lines[k])], <<NL>>)

\* the lines the loop of parse enumerates, and the line it is at (i is 0-based)
LoopLines == SplitLines(CLEAN)
CurLine   == LoopLines[i + 1]
\* PART = line.split(self.DELIM); ROLE, NAME = PART[0].strip(), PART[1].strip()
PART      == SplitOn(CurLine, DELIM)
ROLE      == Strip(PART[1])
NAME      == Strip(PART[2])

\* variant: the next line is indexed without the test for the last line
NextLineIndexError_NoLastLineTest ==
    i + 2 > Len(SplitLines(CLEAN))

\* CLEAN.split(self.NL)[i+1] raises IndexError when the index is out of range
NextLineIndexError ==
    /\ i + 1 # Len(SplitLines(CLEAN))
    /\ i + 2 > Len(SplitOn(CLEAN, NL))

\* variant: a next line that is itself a role is taken as the name
NextLineParticipant_TakesRole ==
    IF i + 1 = Len(SplitLines(CLEAN)) THEN <<>>
    ELSE RemoveChar(Strip(SplitOn(CLEAN, NL)[i + 2]), "@")

\* the value NLPT has when the entry is appended
NextLineParticipant ==
    IF i + 1 = Len(SplitLines(CLEAN)) THEN <<>>
    ELSE LET NLPT == RemoveChar(Strip(SplitOn(CLEAN, NL)[i + 2]), "@")
         IN  IF Contains(NLPT, DELIM) THEN <<>> ELSE NLPT

\* RESULT = []; SOURCE given; CLEAN computed
ParseBegin ==
    /\ pc = "start"
    /\ CLEAN' = CleanOf(SOURCE)
    /\ RESULT' = <<>>
    /\ i' = 0
    /\ pc' = "loop"
    /\ UNCHANGED <<SOURCE, appVars, memVars, fmtVars, pureVars, fldVars>>

\* a line without the delimiter is passed over
ParseSkip ==
    /\ pc = "loop"
    /\ i < Len(LoopLines)
    /\ ~Contains(CurLine, DELIM)
    /\ i' = i + 1
    /\ UNCHANGED <<SOURCE, CLEAN, RESULT, pc, appVars, memVars, fmtVars, pureVars, fldVars>>

\* variant: an entry whose role is already in RESULT replaces that entry
ParseNamed_MergesRoles ==
    /\ pc = "loop"
    /\ i < Len(LoopLines)
    /\ Contains(CurLine, DELIM)
    /\ Len(LettersOnly(NAME)) > 0
    /\ LET entry == <<fmtStr(ROLE, ROLE_MODE), fmtStr(NAME, NAME_MODE)>>
       IN  RESULT' = IF \E k \in DOMAIN RESULT : RESULT[k][1] = entry[1]
                     THEN [k \in DOMAIN RESULT |-> IF RESULT[k][1] = entry[1] THEN entry ELSE RESULT[k]]
                     ELSE Append(RESULT, entry)
    /\ i' = i + 1
    /\ UNCHANGED <<SOURCE, CLEAN, pc, appVars, memVars, fmtVars, pureVars, fldVars>>

\* "If there's a name in the line"
ParseNamed ==
    /\ pc = "loop"
    /\ i < Len(LoopLines)
    /\ Contains(CurLine, DELIM)
    /\ Len(LettersOnly(NAME)) > 0
    /\ RESULT' = Append(RESULT, <<fmtStr(ROLE, ROLE_MODE), fmtStr(NAME, NAME_MODE)>>)
    /\ i' = i + 1
    /\ UNCHANGED <<SOURCE, CLEAN, pc, appVars, memVars, fmtVars, pureVars, fldVars>>

\* "When there's no NAME next to the ROLE"
ParseBare ==
    /\ pc = "loop"
    /\ i < Len(LoopLines)
    /\ Contains(CurLine, DELIM)
    /\ Len(LettersOnly(NAME)) = 0
    /\ IF NextLineIndexError
       THEN /\ pc' = "IndexError"
            /\ UNCHANGED <<RESULT, i>>
       ELSE /\ RESULT' = Append(RESULT, <<fmtStr(RemoveChar(CurLine, DELIM), ROLE_MODE),
                                          fmtStr(Strip(NextLineParticipant), NAME_MODE)>>)
            /\ i' = i + 1
            /\ pc' = pc
    /\ UNCHANGED <<SOURCE, CLEAN, appVars, memVars, fmtVars, pureVars, fldVars>>

\* return RESULT
ParseReturn ==
    /\ pc = "loop"
    /\ i = Len(LoopLines)
    /\ pc' = "done"
    /\ UNCHANGED <<SOURCE, CLEAN, i, RESULT, appVars, memVars, fmtVars, pureVars, fldVars>>

(***************************************************************************)
(* participants.py: formatting of a field text                             *)
(***************************************************************************)
\* Core.IGNORED_CASE = ['of', 'to', 'and', 'by', 'for']
IGNORED_CASE == { <<"o", "f">>, <<"t", "o">>, <<"a", "n", "d">>, <<"b", "y">>, <<"f", "o", "r">> }

\* Core.adjustRoleFormat
adjustRoleFormat(role) ==
    LET words == SplitWs(role)
    IN  Join([k \in DOMAIN words |->
                IF Lower(words[k]) \notin IGNORED_CASE THEN NameCase(words[k]) ELSE Lower(words[k])],
             <<" ">>)

\* variant: the name is stored as it was typed
adjustNameFormat_AsTyped(name) == name

\* Members.adjustNameFormat
adjustNameFormat(name) ==
    LET words == SplitWs(name)
        cased == Join([k \in DOMAIN words |-> NameCase(words[k])], <<" ">>)
        parts == SplitWs(cased)
    IN  IF parts = <<>> THEN cased                         \* IndexError: "Handler for blank field"
        ELSE IF /\ SliceTo(Lower(parts[1]), 3) \in { <<"b", "r", "o">>, <<"s", "i", "s">>, <<"p", "t", "r">> }
                /\ Lower(parts[1]) \notin { <<"b", "r", "o", "t", "h", "e", "r">>,
                                            <<"s", "i", "s", "t", "e", "r">>,
                                            <<"p", "a", "s", "t", "o", "r">> }
                /\ parts[1][Len(parts[1])] # "."
             THEN parts[1] \o <<".", " ">> \o Join(Tail(parts), <<" ">>)
             ELSE cased

(***************************************************************************)
(* participants.py: Fields                                                 *)
(***************************************************************************)
FIELDS_MAX == 20

\* Fields.__init__: self.PREV_ACTIVE = None
None == -1

\* the lists of buttons after refreshStates, for rows of n buttons and the
\* counter fields: every insert button is enabled unless fields >= FIELDS_MAX
\* ("Prevent Overflow"), the first remove button is enabled unless
\* fields <= 1 ("Prevent Depletion"), the other remove buttons stay as they are
refreshStates_INSS(n, fields) == [k \in 1..n |-> ~(fields >= FIELDS_MAX)]
refreshStates_REMS(enabled, fields) ==
    [k \in DOMAIN enabled |-> IF k = 1 THEN ~(fields <= 1) ELSE enabled[k]]

\* n new buttons as insertField makes them
NewATVS(n) == [k \in 1..n |-> "BTN_ATVS"]
NewREMS(n) == [k \in 1..n |-> "BTN_REMS"]

StripAll(texts) == [k \in DOMAIN texts |-> Strip(texts[k])]

\* variant: a de-duplication pass over the merged list keeps the first of
\* equal entries only
getFieldData_NoRepeats(cur, pool) ==
    LET m    == cur \o SelectSeq(pool, LAMBDA x : \A k \in DOMAIN cur : cur[k] # x)
        keep == {k \in DOMAIN m : \A j \in 1..(k - 1) : m[j] # m[k]}
    IN  [n \in 1..Cardinality(keep) |->
            m[CHOOSE k \in keep : Cardinality({j \in keep : j <= k}) = n]]

\* Fields.getFieldData(merge=True) for one list:
\*     ROLES += [i for i in RLS if i not in ROLES]
\* cur is the list of current texts, pool the module global RLS or NMS
getFieldData(cur, pool) ==
    cur \o SelectSeq(pool, LAMBDA x : \A k \in DOMAIN cur : cur[k] # x)

InsertAt(s, k, e) == SubSeq(s, 1, k - 1) \o <<e>> \o SubSeq(s, k, Len(s))
RemoveAt(s, k)    == SubSeq(s, 1, k - 1) \o SubSeq(s, k + 1, Len(s))

\* the texts an operator types into a role or a name combo box
RoleTexts == { <<"R", "1">>, <<"R", "2">> }
NameTexts == { <<"A">>, <<"B">> }

\* A text is typed into the role combo box of row r (1-based) and the editing
\* is finished.  Fields.refreshItems converts the text of that combo box (the
\* one recorded in PREV_CBX) with Core.adjustRoleFormat and sets every combo
\* box to its own stripped text.
EditRole(r, text) ==
    /\ r \in DOMAIN CBX_RLS
    /\ BTN_REMS[r] = "BTN_REMS"                  \* lockUnlockField: setEnabled(False)
    /\ CBX_RLS' = StripAll([CBX_RLS EXCEPT ![r] = adjustRoleFormat(text)])
    /\ CBX_NMS' = StripAll(CBX_NMS)
    /\ UNCHANGED <<RLS, NMS, POOL, FIELDS, LST_MEM_MEMBERS, CACHED_MEMBERS,
                   SAVE_STATE, poolWriter, memVars, parseVars, fmtVars, pureVars, fldVars>>

\* The same for the name combo box of row r, converted with
\* Members.adjustNameFormat.
EditName(r, text) ==
    /\ r \in DOMAIN CBX_NMS
    /\ BTN_REMS[r] = "BTN_REMS"                  \* lockUnlockField: setEnabled(False)
    /\ CBX_RLS' = StripAll(CBX_RLS)
    /\ CBX_NMS' = StripAll([CBX_NMS EXCEPT ![r] = adjustNameFormat(text)])
    /\ UNCHANGED <<RLS, NMS, POOL, FIELDS, LST_MEM_MEMBERS, CACHED_MEMBERS,
                   SAVE_STATE, poolWriter, memVars, parseVars, fmtVars, pureVars, fldVars>>

\* Fields.redirectFieldInsertion: the insert button of row r is released;
\* insertField(r - 1) puts an empty field below row r, refreshItems sets every
\* combo box to its stripped text, and a right click (duplicate) sets the new
\* field to the texts of row r.  (The combo box refreshItems converts again
\* holds a text that EditRole, EditName or the stored pool left converted.)
InsertField(r, duplicate) ==
    /\ r \in DOMAIN CBX_RLS
    /\ BTN_INSS[r]                               \* refreshStates: "Prevent Overflow"
    /\ Len(CBX_RLS) < MaxFields
    /\ LET rls == StripAll(InsertAt(CBX_RLS, r + 1, <<>>))
           nms == StripAll(InsertAt(CBX_NMS, r + 1, <<>>))
       IN  IF duplicate
           THEN /\ CBX_RLS' = [rls EXCEPT ![r + 1] = rls[r]]
                /\ CBX_NMS' = [nms EXCEPT ![r + 1] = nms[r]]
           ELSE /\ CBX_RLS' = rls
                /\ CBX_NMS' = nms
    /\ FIELDS' = Len(CBX_RLS) + 1
    /\ BTN_ATVS' = InsertAt(BTN_ATVS, r + 1, "BTN_ATVS")
    /\ BTN_REMS' = InsertAt(BTN_REMS, r + 1, "BTN_REMS")
    /\ BTN_INSS' = refreshStates_INSS(Len(BTN_INSS) + 1, FIELDS')
    /\ REM_ENABLED' = refreshStates_REMS(InsertAt(REM_ENABLED, r + 1, TRUE), FIELDS')
    /\ fldOp' = "insertField"
    /\ UNCHANGED <<RLS, NMS, POOL, LST_MEM_MEMBERS, CACHED_MEMBERS,
                   SAVE_STATE, poolWriter, PREV_ACTIVE, ACTIVE_TXT,
                   memVars, parseVars, fmtVars, pureVars>>

\* variant: the object name of the button is not looked at
RemoveField_IgnoresLock(r) ==
    /\ r \in DOMAIN CBX_RLS
    /\ REM_ENABLED[r]
    /\ CBX_RLS' = RemoveAt(CBX_RLS, r)
    /\ CBX_NMS' = RemoveAt(CBX_NMS, r)
    /\ BTN_ATVS' = RemoveAt(BTN_ATVS, r)
    /\ BTN_REMS' = RemoveAt(BTN_REMS, r)
    /\ FIELDS' = FIELDS - 1
    /\ BTN_INSS' = refreshStates_INSS(Len(BTN_INSS) - 1, FIELDS')
    /\ REM_ENABLED' = refreshStates_REMS(RemoveAt(REM_ENABLED, r), FIELDS')
    /\ fldOp' = IF BTN_REMS[r] = "BTN_REMS" THEN "removeField" ELSE "removeField: locked"
    /\ UNCHANGED <<RLS, NMS, POOL, LST_MEM_MEMBERS, CACHED_MEMBERS,
                   SAVE_STATE, poolWriter, PREV_ACTIVE, ACTIVE_TXT,
                   memVars, parseVars, fmtVars, pureVars>>

\* Fields.removeField: the remove button of row r (an enabled button) is
\* released with the left button; the handler returns at once when the
\* button is named "BTN_REMS_LOCKED", else the row leaves the five lists,
\* FIELDS goes down by one and refreshStates runs
RemoveField(r) ==
    /\ r \in DOMAIN CBX_RLS
    /\ REM_ENABLED[r]                            \* refreshStates: "Prevent Depletion"
    /\ IF BTN_REMS[r] # "BTN_REMS"
       THEN /\ fldOp' = "removeField: locked"
            /\ UNCHANGED <<CBX_RLS, CBX_NMS, BTN_ATVS, BTN_REMS, FIELDS, BTN_INSS,
                           REM_ENABLED>>
       ELSE /\ CBX_RLS' = RemoveAt(CBX_RLS, r)
            /\ CBX_NMS' = RemoveAt(CBX_NMS, r)
            /\ BTN_ATVS' = RemoveAt(BTN_ATVS, r)
            /\ BTN_REMS' = RemoveAt(BTN_REMS, r)
            /\ FIELDS' = FIELDS - 1
            /\ BTN_INSS' = refreshStates_INSS(Len(BTN_INSS) - 1, FIELDS')
            /\ REM_ENABLED' = refreshStates_REMS(RemoveAt(REM_ENABLED, r), FIELDS')
            /\ fldOp' = "removeField"
    /\ UNCHANGED <<RLS, NMS, POOL, LST_MEM_MEMBERS, CACHED_MEMBERS,
                   SAVE_STATE, poolWriter, PREV_ACTIVE, ACTIVE_TXT,
                   memVars, parseVars, fmtVars, pureVars>>

\* Fields.lockUnlockField: the remove button of row r (an enabled button) is
\* released with the right button; the object name of the button toggles
\* between "BTN_REMS" and "BTN_REMS_LOCKED" (and the two combo boxes of the
\* row are disabled or enabled with it)
lockUnlockField(r) ==
    /\ r \in DOMAIN BTN_REMS
    /\ REM_ENABLED[r]
    /\ BTN_REMS' = [BTN_REMS EXCEPT ![r] = IF @ = "BTN_REMS" THEN "BTN_REMS_LOCKED"
                                                            ELSE "BTN_REMS"]
    /\ fldOp' = "lockUnlockField"
    /\ UNCHANGED <<appVars, BTN_ATVS, BTN_INSS, REM_ENABLED, PREV_ACTIVE, ACTIVE_TXT,
                   memVars, parseVars, fmtVars, pureVars>>

\* the index setActiveField un-marks: PREV_ACTIVE, or the last button when
\* BTN_ATVS[PREV_ACTIVE] raises IndexError (0-based)
POINTER == IF PREV_ACTIVE < Len(BTN_ATVS) THEN PREV_ACTIVE ELSE Len(BTN_ATVS) - 1

\* Fields.setActiveField: the active button of row r is clicked.  A button
\* named "BTN_ATVS_SELECTED" is un-marked and Role.txt and Name.txt are
\* cleared; else the button at POINTER is un-marked (when PREV_ACTIVE is not
\* None), the texts of row r are written to Role.txt and Name.txt, the
\* button of row r is marked and PREV_ACTIVE becomes its index.
setActiveField(r) ==
    /\ r \in DOMAIN BTN_ATVS
    /\ IF BTN_ATVS[r] = "BTN_ATVS_SELECTED"
       THEN /\ ACTIVE_TXT' = [Role |-> <<>>, Name |-> <<>>]
            /\ BTN_ATVS' = [BTN_ATVS EXCEPT ![r] = "BTN_ATVS"]
            /\ UNCHANGED PREV_ACTIVE
       ELSE /\ ACTIVE_TXT' = [Role |-> CBX_RLS[r], Name |-> CBX_NMS[r]]
            /\ BTN_ATVS' = [k \in DOMAIN BTN_ATVS |->
                               IF k = r THEN "BTN_ATVS_SELECTED"
                               ELSE IF PREV_ACTIVE # None /\ k = POINTER + 1 THEN "BTN_ATVS"
                               ELSE BTN_ATVS[k]]
            /\ PREV_ACTIVE' = r - 1
    /\ fldOp' = "setActiveField"
    /\ UNCHANGED <<appVars, BTN_INSS, BTN_REMS, REM_ENABLED,
                   memVars, parseVars, fmtVars, pureVars>>

(***************************************************************************)
(* participants.py: Export                                                 *)
(***************************************************************************)
\* "Save to JSON": DCFG['POOL'] is updated with getFieldData(True), the new
\* lists of the merge, PDB.dump()
SaveToJSON ==
    POOL' = [ROLES |-> getFieldData(CBX_RLS, RLS), NAMES |-> getFieldData(CBX_NMS, NMS)]

\* Export.toPlainText: a folder is chosen (chosen) or the dialog is cancelled
toPlainText(chosen) ==
    /\ IF chosen
       THEN /\ SaveToJSON
            /\ poolWriter' = "export"
            /\ NAMES_IS_CACHED' = FALSE
       ELSE UNCHANGED <<POOL, poolWriter, NAMES_IS_CACHED>>
    /\ UNCHANGED <<RLS, NMS, CBX_RLS, CBX_NMS, FIELDS, LST_MEM_MEMBERS, CACHED_MEMBERS, SAVE_STATE,
                   LNE_MEM_SEARCHADD, LAST_INPUT, BTN_MEM_ADD, DLG_RENAME, memOp, parseVars, fmtVars, pureVars, fldVars>>

\* Export.toPowerpoint: the presentation is saved (saved) or saving raises
toPowerpoint(saved) ==
    /\ IF saved
       THEN /\ SaveToJSON
            /\ poolWriter' = "export"
            /\ NAMES_IS_CACHED' = FALSE
       ELSE UNCHANGED <<POOL, poolWriter, NAMES_IS_CACHED>>
    /\ UNCHANGED <<RLS, NMS, CBX_RLS, CBX_NMS, FIELDS, LST_MEM_MEMBERS, CACHED_MEMBERS, SAVE_STATE,
                   LNE_MEM_SEARCHADD, LAST_INPUT, BTN_MEM_ADD, DLG_RENAME, memOp, parseVars, fmtVars, pureVars, fldVars>>

(***************************************************************************)
(* participants.py: Members                                                *)
(***************************************************************************)
ITEMS_THRESHOLD == 7

\* the characters in code point order, for QListWidget.sortItems()
CodePoints == <<"\t", "\n", "\r", " ", "\"", "'", "-", ".", "0", "1", "2", "3", "4", "5", "6", "7",
                "8", "9", ":", "@">> \o UpperCase \o LowerCase
CodePoint(c) == CHOOSE k \in DOMAIN CodePoints : CodePoints[k] = c

RECURSIVE TextLess(_, _)
TextLess(a, b) ==
    IF b = <<>> THEN FALSE
    ELSE IF a = <<>> THEN TRUE
    ELSE IF Head(a) = Head(b) THEN TextLess(Tail(a), Tail(b))
    ELSE CodePoint(Head(a)) < CodePoint(Head(b))

RECURSIVE sortItems(_)
\* QListWidget.sortItems(): ascending order of the item texts
sortItems(items) ==
    IF items = <<>> THEN <<>>
    ELSE LET rest == sortItems(Tail(items))
             n    == Cardinality({k \in DOMAIN rest : TextLess(rest[k], Head(items))})
         IN  InsertAt(rest, n + 1, Head(items))

\* Members.DUPLICATE_THRESHOLD = 0.85, in hundredths
DUPLICATE_THRESHOLD == 85

RECURSIVE LongestCommon(_, _)
\* length of the longest common subsequence of two strings
LongestCommon(a, b) ==
    IF a = <<>> \/ b = <<>> THEN 0
    ELSE IF Head(a) = Head(b) THEN 1 + LongestCommon(Tail(a), Tail(b))
    ELSE LET x == LongestCommon(Tail(a), b)
             y == LongestCommon(a, Tail(b))
         IN  IF x >= y THEN x ELSE y

\* lev.ratio(a, b) > DUPLICATE_THRESHOLD.  Levenshtein.ratio is
\* (len(a) + len(b) - d) / (len(a) + len(b)) with d the edit distance in
\* which a substitution costs 2, that is 2 * LongestCommon / (len(a) + len(b)),
\* and 1.0 for two empty strings.
RatioExceeds(a, b) ==
    IF Len(a) + Len(b) = 0 THEN 100 > DUPLICATE_THRESHOLD
    ELSE 200 * LongestCommon(a, b) > DUPLICATE_THRESHOLD * (Len(a) + Len(b))

\* list.remove(x): the list without the first element equal to x
RemoveFirst(list, x) ==
    RemoveAt(list, CHOOSE k \in DOMAIN list : list[k] = x /\ \A j \in 1..(k - 1) : list[j] # x)

\* variant: the names are compared as they are written, not case-folded
SimilarIn_CaseSensitive(name, MEMBERS) ==
    SelectSeq(MEMBERS, LAMBDA n : RatioExceeds(n, name))

\* the list comprehension of Members.getSimilarNames over MEMBERS
SimilarIn(name, MEMBERS) ==
    SelectSeq(MEMBERS, LAMBDA n : RatioExceeds(Lower(n), Lower(name)))

\* a in b, for two strings
IsSubstring(a, b) ==
    \E k \in 0..(Len(b) - Len(a)) : SubSeq(b, k + 1, k + Len(a)) = a

\* the items Members.filterItems puts into the list widget
filterItems(text) ==
    LET INPUT == LettersOnly(Lower(text))
    IN  sortItems(SelectSeq(CACHED_MEMBERS, LAMBDA n : IsSubstring(INPUT, LettersOnly(Lower(n)))))

\* what memOp records of a handler
Op(handler, text, result, similar) ==
    [handler |-> handler, text |-> text, result |-> result, similar |-> similar]

DlgClosed == [open |-> FALSE, row |-> 0, OLD_NAME |-> <<>>]

\* a slot has raised ValueError: the handlers run no more
Raised == memOp.result = "ValueError"

\* no modal dialog is open and the program runs
Ready == ~DLG_RENAME.open /\ ~Raised

\* Members.SEARCH_STATE as checkSearchAdd leaves it: the bar holds a letter
SEARCH_STATE == LettersOnly(LNE_MEM_SEARCHADD) # <<>>

\* Members.checkSearchAdd: the text of the search/add bar is changed to text
\* (textChanged)
checkSearchAdd(text) ==
    /\ Ready
    /\ text # LNE_MEM_SEARCHADD
    /\ LNE_MEM_SEARCHADD' = text
    /\ LET refilled == IF Len(text) < Len(LAST_INPUT) THEN CACHED_MEMBERS ELSE LST_MEM_MEMBERS
       IN  IF text # <<>>
           THEN /\ LST_MEM_MEMBERS' = sortItems(filterItems(text))
                /\ LAST_INPUT' = text
           ELSE /\ LST_MEM_MEMBERS' = sortItems(refilled)
                /\ UNCHANGED LAST_INPUT
    /\ BTN_MEM_ADD' = (LettersOnly(text) # <<>>)
    /\ memOp' = Op("checkSearchAdd", <<>>, "filtered", <<>>)
    /\ UNCHANGED <<RLS, NMS, POOL, CBX_RLS, CBX_NMS, FIELDS, CACHED_MEMBERS, SAVE_STATE, poolWriter,
                   DLG_RENAME, NAMES_IS_CACHED, parseVars, fmtVars, pureVars, fldVars>>

\* Members.searchClicked: the mouse is released on the search/add bar
searchClicked ==
    /\ Ready
    /\ BTN_MEM_ADD' = (Len(CACHED_MEMBERS) > 0 /\ LettersOnly(LNE_MEM_SEARCHADD) # <<>>)
    /\ memOp' = Op("searchClicked", <<>>, "", <<>>)
    /\ UNCHANGED <<appVars, LNE_MEM_SEARCHADD, LAST_INPUT, DLG_RENAME, NAMES_IS_CACHED, parseVars, fmtVars, pureVars, fldVars>>

\* variant: the bar is cleared before the dialog is shown, which shows all
\* members again
addRejected_ClearsBar(result, similar) ==
    /\ memOp' = Op("addNewMember", LNE_MEM_SEARCHADD, result, similar)
    /\ LNE_MEM_SEARCHADD' = <<>>
    /\ LST_MEM_MEMBERS' = sortItems(CACHED_MEMBERS)
    /\ BTN_MEM_ADD' = FALSE
    /\ UNCHANGED <<CACHED_MEMBERS, SAVE_STATE, NAMES_IS_CACHED>>

\* addNewMember returns after displayDialog: nothing is touched
addRejected(result, similar) ==
    /\ memOp' = Op("addNewMember", LNE_MEM_SEARCHADD, result, similar)
    /\ UNCHANGED <<LST_MEM_MEMBERS, CACHED_MEMBERS, SAVE_STATE, LNE_MEM_SEARCHADD,
                   BTN_MEM_ADD, NAMES_IS_CACHED>>

\* Members.addNewMember: the add button is clicked (or Enter is pressed in
\* the bar); confirmed is the answer to the similar-names dialog.  On
\* proceeding the bar is cleared, which runs checkSearchAdd with an empty
\* text, the new item is added, the list is sorted and read back.
addNewMember(confirmed) ==
    /\ Ready
    /\ BTN_MEM_ADD
    /\ LET PROPOSED == Strip(LNE_MEM_SEARCHADD)
           similar  == SimilarIn(PROPOSED, CACHED_MEMBERS)
           refilled == IF 0 < Len(LAST_INPUT) THEN CACHED_MEMBERS ELSE LST_MEM_MEMBERS
           items    == sortItems(sortItems(refilled) \o <<adjustNameFormat(PROPOSED)>>)
       IN  IF Lower(PROPOSED) \in {Strip(Lower(CACHED_MEMBERS[k])) : k \in DOMAIN CACHED_MEMBERS}
           THEN addRejected("DUPLICATE_EXACT", similar)
           ELSE IF similar # <<>> /\ ~confirmed
           THEN addRejected("DUPLICATE_SIMILAR", similar)
           ELSE /\ Len(CACHED_MEMBERS) < MaxMembers
                /\ LNE_MEM_SEARCHADD' = <<>>
                /\ LST_MEM_MEMBERS' = items
                /\ CACHED_MEMBERS' = items
                /\ NAMES_IS_CACHED' = FALSE
                /\ SAVE_STATE' = FALSE
                /\ BTN_MEM_ADD' = FALSE
                /\ memOp' = Op("addNewMember", LNE_MEM_SEARCHADD, "added", similar)
    /\ UNCHANGED <<RLS, NMS, POOL, CBX_RLS, CBX_NMS, FIELDS, poolWriter, LAST_INPUT, DLG_RENAME,
                   parseVars, fmtVars, pureVars, fldVars>>

\* Members.editMember: row sel of the list is selected (itemChanged) and the
\* edit button is clicked: the modal rename dialog opens with OLD_NAME
editMember(sel) ==
    /\ Ready
    /\ sel \in DOMAIN LST_MEM_MEMBERS
    /\ DLG_RENAME' = [open |-> TRUE, row |-> sel, OLD_NAME |-> LST_MEM_MEMBERS[sel]]
    /\ BTN_MEM_ADD' = FALSE
    /\ memOp' = Op("editMember", <<>>, "open", <<>>)
    /\ UNCHANGED <<appVars, LNE_MEM_SEARCHADD, LAST_INPUT, NAMES_IS_CACHED, parseVars, fmtVars, pureVars, fldVars>>

\* the end of editMember once the dialog is hidden: SAVE_STATE = False,
\* generalRefresh()
DialogHidden(items) ==
    /\ DLG_RENAME' = DlgClosed
    /\ SAVE_STATE' = FALSE
    /\ LST_MEM_MEMBERS' = sortItems(items)

\* DLG_RENAME.accept: OK is pressed with text in the line edit; confirmed is
\* the answer to the similar-names dialog.  hasDuplicateName(NEW_NAME,
\* OLD_NAME) calls getSimilarNames, which removes OLD_NAME from the list
\* object CACHED_MEMBERS (ValueError when it is not in it), the same object
\* as DCFG['POOL']['NAMES'] after saveMemberList.
accept(text, confirmed) ==
    /\ DLG_RENAME.open /\ ~Raised
    /\ LET NEW_NAME == Strip(text)
           OLD_NAME == DLG_RENAME.OLD_NAME
           renamed  == [LST_MEM_MEMBERS EXCEPT ![DLG_RENAME.row] = adjustNameFormat(NEW_NAME)]
           MEMBERS  == RemoveFirst(CACHED_MEMBERS, OLD_NAME)
           similar  == SimilarIn(NEW_NAME, MEMBERS)
           removed  == IF NAMES_IS_CACHED THEN [POOL EXCEPT !.NAMES = MEMBERS] ELSE POOL
       IN  IF NEW_NAME = <<>>
           THEN /\ DialogHidden(LST_MEM_MEMBERS)
                /\ memOp' = Op("accept", text, "blank", <<>>)
                /\ UNCHANGED <<CACHED_MEMBERS, POOL, NAMES_IS_CACHED>>
           ELSE IF Lower(NEW_NAME) = Lower(OLD_NAME)
           THEN /\ DialogHidden(renamed)
                /\ CACHED_MEMBERS' = renamed
                /\ NAMES_IS_CACHED' = FALSE
                /\ memOp' = Op("accept", text, "same", <<>>)
                /\ UNCHANGED POOL
           ELSE IF Lower(NEW_NAME) \in {Lower(LST_MEM_MEMBERS[k]) : k \in DOMAIN LST_MEM_MEMBERS}
           THEN /\ memOp' = Op("accept", text, "DUPLICATE_EXACT", SimilarIn(NEW_NAME, CACHED_MEMBERS))
                /\ UNCHANGED <<DLG_RENAME, SAVE_STATE, LST_MEM_MEMBERS, CACHED_MEMBERS, POOL,
                               NAMES_IS_CACHED>>
           ELSE IF OLD_NAME \notin Range(CACHED_MEMBERS)
           THEN /\ memOp' = Op("accept", text, "ValueError", <<>>)
                /\ UNCHANGED <<DLG_RENAME, SAVE_STATE, LST_MEM_MEMBERS, CACHED_MEMBERS, POOL,
                               NAMES_IS_CACHED>>
           ELSE IF similar # <<>> /\ ~confirmed
           THEN /\ CACHED_MEMBERS' = MEMBERS
                /\ POOL' = removed
                /\ memOp' = Op("accept", text, "DUPLICATE_SIMILAR", similar)
                /\ UNCHANGED <<DLG_RENAME, SAVE_STATE, LST_MEM_MEMBERS, NAMES_IS_CACHED>>
           ELSE /\ DialogHidden(renamed)
                /\ CACHED_MEMBERS' = renamed
                /\ POOL' = removed
                /\ NAMES_IS_CACHED' = FALSE
                /\ memOp' = Op("accept", text, "renamed", similar)
    /\ UNCHANGED <<RLS, NMS, CBX_RLS, CBX_NMS, FIELDS, poolWriter, LNE_MEM_SEARCHADD, LAST_INPUT,
                   BTN_MEM_ADD, parseVars, fmtVars, pureVars, fldVars>>

\* DLG_RENAME.reject: Cancel is pressed or the dialog is closed
reject ==
    /\ DLG_RENAME.open /\ ~Raised
    /\ DialogHidden(LST_MEM_MEMBERS)
    /\ memOp' = Op("reject", <<>>, "cancelled", <<>>)
    /\ UNCHANGED <<RLS, NMS, POOL, CBX_RLS, CBX_NMS, FIELDS, CACHED_MEMBERS, poolWriter,
                   LNE_MEM_SEARCHADD, LAST_INPUT, BTN_MEM_ADD, NAMES_IS_CACHED, parseVars, fmtVars, pureVars, fldVars>>

\* variant: the item is taken out of the list widget, the list is not read
\* back
removeMember_KeepsCache(sel) ==
    /\ Ready
    /\ sel \in DOMAIN LST_MEM_MEMBERS
    /\ LST_MEM_MEMBERS' = sortItems(RemoveAt(LST_MEM_MEMBERS, sel))
    /\ SAVE_STATE' = FALSE
    /\ BTN_MEM_ADD' = FALSE
    /\ memOp' = Op("removeMember", LST_MEM_MEMBERS[sel], "removed", <<>>)
    /\ UNCHANGED <<RLS, NMS, POOL, CBX_RLS, CBX_NMS, FIELDS, CACHED_MEMBERS, poolWriter,
                   LNE_MEM_SEARCHADD, LAST_INPUT, DLG_RENAME, NAMES_IS_CACHED, parseVars, fmtVars, pureVars, fldVars>>

\* Members.removeMember: row sel of the list is selected (itemChanged) and
\* the remove button is clicked: the item is taken out and the list is read
\* back into CACHED_MEMBERS
removeMember(sel) ==
    /\ Ready
    /\ sel \in DOMAIN LST_MEM_MEMBERS
    /\ CACHED_MEMBERS' = RemoveAt(LST_MEM_MEMBERS, sel)
    /\ LST_MEM_MEMBERS' = sortItems(RemoveAt(LST_MEM_MEMBERS, sel))
    /\ SAVE_STATE' = FALSE
    /\ NAMES_IS_CACHED' = FALSE
    /\ BTN_MEM_ADD' = FALSE
    /\ memOp' = Op("removeMember", LST_MEM_MEMBERS[sel], "removed", <<>>)
    /\ UNCHANGED <<RLS, NMS, POOL, CBX_RLS, CBX_NMS, FIELDS, poolWriter, LNE_MEM_SEARCHADD,
                   LAST_INPUT, DLG_RENAME, parseVars, fmtVars, pureVars, fldVars>>

\* Members.saveMemberList(): the save button is enabled when the list is not
\* empty and SAVE_STATE is false; a list shorter than ITEMS_THRESHOLD asks
\* for a confirmation (confirmed)
saveMemberList(confirmed) ==
    /\ Ready
    /\ Len(LST_MEM_MEMBERS) > 0 /\ ~SAVE_STATE
    /\ IF Len(CACHED_MEMBERS) < ITEMS_THRESHOLD /\ ~confirmed
       THEN /\ memOp' = Op("saveMemberList", <<>>, "declined", <<>>)
            /\ UNCHANGED <<POOL, SAVE_STATE, LST_MEM_MEMBERS, poolWriter, NAMES_IS_CACHED>>
       ELSE /\ POOL' = [POOL EXCEPT !.NAMES = CACHED_MEMBERS]
            /\ NAMES_IS_CACHED' = TRUE
            /\ SAVE_STATE' = TRUE
            /\ LST_MEM_MEMBERS' = sortItems(LST_MEM_MEMBERS)
            /\ poolWriter' = "saveMemberList"
            /\ memOp' = Op("saveMemberList", <<>>, "saved", <<>>)
    /\ UNCHANGED <<RLS, NMS, CBX_RLS, CBX_NMS, FIELDS, CACHED_MEMBERS, LNE_MEM_SEARCHADD,
                   LAST_INPUT, BTN_MEM_ADD, DLG_RENAME, parseVars, fmtVars, pureVars, fldVars>>

\* Members.exportMemberList: the export button is enabled when the list is
\* not empty and nothing is searched; a short list asks for a confirmation, a file is chosen
\* (chosen) or not; with a file the list is written and saveMemberList(True)
\* is called
exportMemberList(confirmed, chosen) ==
    /\ Ready
    /\ Len(LST_MEM_MEMBERS) > 0 /\ ~SEARCH_STATE
    /\ IF (Len(CACHED_MEMBERS) < ITEMS_THRESHOLD /\ ~confirmed) \/ ~chosen
       THEN /\ memOp' = Op("exportMemberList", <<>>, "declined", <<>>)
            /\ UNCHANGED <<POOL, SAVE_STATE, LST_MEM_MEMBERS, poolWriter, NAMES_IS_CACHED>>
       ELSE /\ POOL' = [POOL EXCEPT !.NAMES = CACHED_MEMBERS]
            /\ NAMES_IS_CACHED' = TRUE
            /\ SAVE_STATE' = TRUE
            /\ LST_MEM_MEMBERS' = sortItems(LST_MEM_MEMBERS)
            /\ poolWriter' = "saveMemberList"
            /\ memOp' = Op("exportMemberList", <<>>, "saved", <<>>)
    /\ UNCHANGED <<RLS, NMS, CBX_RLS, CBX_NMS, FIELDS, CACHED_MEMBERS, LNE_MEM_SEARCHADD,
                   LAST_INPUT, BTN_MEM_ADD, DLG_RENAME, parseVars, fmtVars, pureVars, fldVars>>

\* Members.importMemberList: a member list file is chosen and read (list is
\* its MEMBER_LIST), or no file is chosen or the file is invalid (valid
\* false); Members.setup() refills the list widget and the cache
importMemberList(valid, list) ==
    /\ Ready
    /\ IF valid
       THEN /\ POOL' = [POOL EXCEPT !.NAMES = list]
            /\ CACHED_MEMBERS' = list
            /\ NAMES_IS_CACHED' = FALSE
            /\ LST_MEM_MEMBERS' = sortItems(list)
            /\ poolWriter' = "importMemberList"
            /\ memOp' = Op("importMemberList", <<>>, "imported", <<>>)
       ELSE /\ memOp' = Op("importMemberList", <<>>, "invalid", <<>>)
            /\ UNCHANGED <<POOL, CACHED_MEMBERS, LST_MEM_MEMBERS, poolWriter, NAMES_IS_CACHED>>
    /\ UNCHANGED <<RLS, NMS, CBX_RLS, CBX_NMS, FIELDS, SAVE_STATE, LNE_MEM_SEARCHADD,
                   LAST_INPUT, BTN_MEM_ADD, DLG_RENAME, parseVars, fmtVars, pureVars, fldVars>>

(***************************************************************************)
(* participants.py: start-up (__main__, Fields.setup, Members.setup)       *)
(***************************************************************************)
\* Members.__init__ and QWGT_SETTINGS.setupUI: the bar is empty, the add
\* button is disabled, no dialog is open; Members.setup read the list widget
\* into a list of its own
MembersStarted ==
    /\ LNE_MEM_SEARCHADD = <<>> /\ LAST_INPUT = <<>> /\ BTN_MEM_ADD = FALSE
    /\ DLG_RENAME = DlgClosed
    /\ NAMES_IS_CACHED = FALSE
    /\ memOp = Op("setup", <<>>, "", <<>>)

\* The state after start-up with the stored pool (roles, names): RLS and NMS
\* are bound to the lists of the pool; Fields.setup makes one field per role
\* with the i-th role and the i-th name (none: empty), refreshItems converts
\* the first role (PREV_CBX = (0,0,0,0)) and strips every text; Members.setup
\* fills the member list from the names.
StartedWith(roles, names) ==
    /\ RLS = roles /\ NMS = names
    /\ POOL = [ROLES |-> roles, NAMES |-> names]
    /\ CBX_RLS = StripAll([roles EXCEPT ![1] = adjustRoleFormat(roles[1])])
    /\ CBX_NMS = StripAll([k \in DOMAIN roles |-> IF k \in DOMAIN names THEN names[k] ELSE <<>>])
    /\ FIELDS = Len(roles)
    /\ BTN_ATVS = NewATVS(Len(roles))
    /\ BTN_REMS = NewREMS(Len(roles))
    /\ BTN_INSS = refreshStates_INSS(Len(roles), Len(roles))
    /\ REM_ENABLED = [k \in 1..Len(roles) |-> ~(k = 1 /\ Len(roles) <= 1)]
    /\ PREV_ACTIVE = None
    /\ ACTIVE_TXT = [Role |-> <<>>, Name |-> <<>>]
    /\ fldOp = "setup"
    /\ LST_MEM_MEMBERS = sortItems(names)
    /\ CACHED_MEMBERS = names
    /\ SAVE_STATE = TRUE
    /\ poolWriter = "startup"
    /\ MembersStarted

\* fmtStr called on the argument, and called again on its own result
FmtOnce ==
    /\ fmtPc = "in"
    /\ fmtOut' = fmtStr(fmtIn, fmtMode)
    /\ fmtPc' = "once"
    /\ UNCHANGED <<fmtIn, fmtMode, fmtOut2, appVars, memVars, parseVars, pureVars, fldVars>>

FmtTwice ==
    /\ fmtPc = "once"
    /\ fmtOut2' = fmtStr(fmtOut, fmtMode)
    /\ fmtPc' = "twice"
    /\ UNCHANGED <<fmtIn, fmtMode, fmtOut, appVars, memVars, parseVars, pureVars, fldVars>>

\* adjustNameFormat called on the argument, and called again on its own
\* result
AdjustOnce ==
    /\ namePc = "in"
    /\ NAME1' = adjustNameFormat(nameIn)
    /\ namePc' = "once"
    /\ UNCHANGED <<nameIn, NAME2, appVars, memVars, parseVars, fmtVars, loadVars, logVars, fldVars>>

AdjustTwice ==
    /\ namePc = "once"
    /\ NAME2' = adjustNameFormat(NAME1)
    /\ namePc' = "twice"
    /\ UNCHANGED <<nameIn, NAME1, appVars, memVars, parseVars, fmtVars, loadVars, logVars, fldVars>>

(***************************************************************************)
(* participants.py: Data (the pool store) and the start-up that reads it.  *)
(***************************************************************************)
DevelopedBy  == <<"D", "e", "v", "e", "l", "o", "p", "e", "d", " ", "b", "y">>
MSDACSystems == <<"M", "S", "D", "A", "C", " ", "S", "y", "s", "t", "e", "m", "s">>

\* the file as Data.generateDefault writes it
DefaultData == [kind |-> "json", POOL |-> [ROLES |-> <<DevelopedBy>>, NAMES |-> <<MSDACSystems>>]]
\* no file, and a file that json.load rejects
Missing == [kind |-> "missing", POOL |-> [ROLES |-> <<>>, NAMES |-> <<>>]]
Corrupt == [kind |-> "corrupt", POOL |-> [ROLES |-> <<>>, NAMES |-> <<>>]]

\* Data.generateDefault: the file after the call
generateDefault(file) == DefaultData

\* Data.check: a missing file is generated, then load is called
check ==
    /\ loadPc = "check"
    /\ IF FILE_DATA.kind = "missing"
       THEN FILE_DATA' = generateDefault(FILE_DATA) /\ generated' = generated + 1
       ELSE UNCHANGED <<FILE_DATA, generated>>
    /\ loadPc' = "load"
    /\ UNCHANGED <<DATA, appVars, memVars, parseVars, fmtVars, nameVars, logVars, fldVars>>

\* Data.load, one iteration of `while True` on a file that is JSON: return
loadReturn ==
    /\ loadPc = "load"
    /\ FILE_DATA.kind = "json"
    /\ DATA' = FILE_DATA
    /\ loadPc' = "setup"
    /\ UNCHANGED <<FILE_DATA, generated, appVars, memVars, parseVars, fmtVars, nameVars, logVars, fldVars>>

\* Data.load, one iteration on a file that is not JSON: JSONDecodeError,
\* generateDefault, next iteration
loadRegenerate ==
    /\ loadPc = "load"
    /\ FILE_DATA.kind = "corrupt"
    /\ FILE_DATA' = generateDefault(FILE_DATA)
    /\ generated' = generated + 1
    /\ UNCHANGED <<DATA, loadPc, appVars, memVars, parseVars, fmtVars, nameVars, logVars, fldVars>>

\* Fields.setup.  With no role in the pool that was loaded generateDefault
\* is called (DCFG is left as it is) and LENGTH is 1.  addFields(LENGTH)
\* appends LENGTH fields, one insertField each; fillupItems sets the i-th
\* field to the i-th role and the i-th name of the pool (RLS and NMS are the
\* lists of DCFG['POOL']), to no text where the pool has no i-th entry;
\* refreshItems converts the first role and strips every text; refreshStates
\* enables and disables the buttons.
FieldsSetup ==
    /\ loadPc = "setup"
    /\ IF Len(DATA.POOL.ROLES) = 0
       THEN FILE_DATA' = generateDefault(FILE_DATA) /\ generated' = generated + 1
       ELSE UNCHANGED <<FILE_DATA, generated>>
    /\ LET roles  == DATA.POOL.ROLES
           names  == DATA.POOL.NAMES
           LENGTH == IF Len(roles) = 0 THEN 1 ELSE Len(roles)
           rls    == [k \in 1..LENGTH |-> IF k \in DOMAIN roles THEN roles[k] ELSE <<>>]
           nms    == [k \in 1..LENGTH |-> IF k \in DOMAIN names THEN names[k] ELSE <<>>]
       IN  /\ CBX_RLS' = StripAll([rls EXCEPT ![1] = adjustRoleFormat(rls[1])])
           /\ CBX_NMS' = StripAll(nms)
           /\ FIELDS' = LENGTH
           /\ BTN_ATVS' = NewATVS(LENGTH)
           /\ BTN_REMS' = NewREMS(LENGTH)
           /\ BTN_INSS' = refreshStates_INSS(LENGTH, LENGTH)
           /\ REM_ENABLED' = refreshStates_REMS([k \in 1..LENGTH |-> TRUE], LENGTH)
    /\ fldOp' = "setup"
    /\ loadPc' = "done"
    /\ UNCHANGED <<DATA, RLS, NMS, POOL, LST_MEM_MEMBERS, CACHED_MEMBERS, SAVE_STATE,
                   poolWriter, PREV_ACTIVE, ACTIVE_TXT,
                   memVars, parseVars, fmtVars, nameVars, logVars>>

(***************************************************************************)
(* participants.py: FileManager                                            *)
(***************************************************************************)
LOG_FILE_LIMIT == 10

\* FileManager.deleteLogs(deleteAll): deleteOldest(getLogFiles, LOG_FILE_LIMIT, deleteAll)
deleteLogs ==
    /\ delPc = "call"
    /\ delPc' = "loop"
    /\ UNCHANGED <<LOG_FILES, LOG_DENIED, LOG_GONE, deleteAll, delLast,
                   appVars, memVars, parseVars, fmtVars, nameVars, loadVars, fldVars>>

\* deleteOldest: threshold if not deleteAll else 0
threshold == IF ~deleteAll THEN LOG_FILE_LIMIT ELSE 0

\* min(fileList(), key=os.path.getatime); a file is named by its access time
oldest == CHOOSE f \in LOG_FILES : \A g \in LOG_FILES : f <= g

\* deleteOldest: the loop test holds and the body is entered
deleteOldestEnter ==
    /\ delPc = "loop"
    /\ Cardinality(LOG_FILES) > threshold
    /\ delPc' = "remove"
    /\ UNCHANGED <<LOG_FILES, LOG_DENIED, LOG_GONE, deleteAll, delLast,
                   appVars, memVars, parseVars, fmtVars, nameVars, loadVars, fldVars>>

\* deleteOldest, the body of the loop: os.remove of the oldest file.  The
\* file is gone already (FileNotFoundError, pass), or it cannot be removed
\* (PermissionError, LOG.warn) and stays, or it is removed; the loop test
\* is next.
deleteOldest ==
    /\ delPc = "remove"
    /\ IF oldest \in LOG_GONE
       THEN LOG_FILES' = LOG_FILES \ {oldest} /\ delLast' = "FileNotFoundError"
       ELSE IF oldest \in LOG_DENIED
       THEN UNCHANGED LOG_FILES /\ delLast' = "PermissionError"
       ELSE LOG_FILES' = LOG_FILES \ {oldest} /\ delLast' = "removed"
    /\ delPc' = "loop"
    /\ UNCHANGED <<LOG_DENIED, LOG_GONE, deleteAll,
                   appVars, memVars, parseVars, fmtVars, nameVars, loadVars, fldVars>>

\* deleteOldest: the loop test fails and the method returns
deleteOldestReturn ==
    /\ delPc = "loop"
    /\ ~(Cardinality(LOG_FILES) > threshold)
    /\ delPc' = "done"
    /\ UNCHANGED <<LOG_FILES, LOG_DENIED, LOG_GONE, deleteAll, delLast,
                   appVars, memVars, parseVars, fmtVars, nameVars, loadVars, fldVars>>

(***************************************************************************)
(* Inputs.                                                                 *)
(***************************************************************************)
RECURSIVE Concat(_)
Concat(ss) == IF ss = <<>> THEN <<>> ELSE Head(ss) \o Concat(Tail(ss))

SeqsUpTo(S, n) == UNION {[1..m -> S] : m \in 0..n}

\* the pieces the input texts of parse are made of: a word (which is also a
\* role exclusion), the delimiter, a line break, a blank, a mention marker
\* and a character that is not a letter
ParseChunks == {<<"t", "o">>, <<":">>, <<"\n">>, <<" ">>, <<"@">>, <<"1">>}

\* "Opening Prayer:\nJohn Smith"
ExNextLine == <<"O", "p", "e", "n", "i", "n", "g", " ", "P", "r", "a", "y", "e", "r", ":", "\n",
                "J", "o", "h", "n", " ", "S", "m", "i", "t", "h">>
\* "Opening Prayer:\nClosing Prayer:"
ExTwoRoles == <<"O", "p", "e", "n", "i", "n", "g", " ", "P", "r", "a", "y", "e", "r", ":", "\n",
                "C", "l", "o", "s", "i", "n", "g", " ", "P", "r", "a", "y", "e", "r", ":">>
\* "AY Leader: to John"
ExExclusion == <<"A", "Y", " ", "L", "e", "a", "d", "e", "r", ":", " ", "t", "o", " ", "J", "o", "h", "n">>
\* "to AY: TBA to"
ExNameExclusion == <<"t", "o", " ", "A", "Y", ":", " ", "T", "B", "A", " ", "t", "o">>
\* "to:\r\n@to\r\n"
ExCrLf == <<"t", "o", ":", "\r", "\n", "@", "t", "o", "\r", "\n">>
\* "to: to: 1"
ExSecondDelim == <<"t", "o", ":", " ", "t", "o", ":", " ", "1">>

ExampleTexts == {ExNextLine, ExTwoRoles, ExExclusion, ExNameExclusion, ExCrLf, ExSecondDelim}

ParseTexts == {Concat(cs) : cs \in SeqsUpTo(ParseChunks, MaxChunks)} \cup ExampleTexts

\* words given to fmtStr: the exclusions, case variants of them, ordinary
\* words, words with a mention marker and a word that starts with a quote
FmtWords == { <<"A", "Y">>, <<"a", "y">>, <<"a", "Y">>,
              <<"t", "o">>, <<"T", "O">>, <<"T", "o">>,
              <<"T", "B", "A">>, <<"t", "b", "a">>, <<"@", "T", "B", "A">>,
              <<"j", "O", "h", "N">>, <<"@">>, <<"\"", "h", "i">> }
FmtSeps  == { <<" ">>, <<" ", "\t">> }
FmtTexts == { Join(ws, sep) : ws \in SeqsUpTo(FmtWords, MaxTokens), sep \in FmtSeps }

(***************************************************************************)
(* Specifications.                                                         *)
(***************************************************************************)
ParseIdle ==
    /\ SOURCE = <<>> /\ CLEAN = <<>> /\ i = 0 /\ RESULT = <<>> /\ pc = "idle"

FmtIdle ==
    /\ fmtIn = <<>> /\ fmtMode = ROLE_MODE /\ fmtOut = <<>> /\ fmtOut2 = <<>> /\ fmtPc = "idle"

NameIdle ==
    /\ nameIn = <<>> /\ NAME1 = <<>> /\ NAME2 = <<>> /\ namePc = "idle"

LoadIdle ==
    /\ FILE_DATA = Missing /\ DATA = Missing /\ loadPc = "idle" /\ generated = 0

LogIdle ==
    /\ LOG_FILES = {} /\ LOG_DENIED = {} /\ LOG_GONE = {} /\ deleteAll = FALSE
    /\ delPc = "idle" /\ delLast = "none"

\* Fields.__init__
FldIdle ==
    /\ BTN_ATVS = <<>> /\ BTN_INSS = <<>> /\ BTN_REMS = <<>> /\ REM_ENABLED = <<>>
    /\ PREV_ACTIVE = None
    /\ ACTIVE_TXT = [Role |-> <<>>, Name |-> <<>>]
    /\ fldOp = "init"

PureIdle == NameIdle /\ LoadIdle /\ LogIdle

AppIdle ==
    /\ RLS = <<>> /\ NMS = <<>> /\ POOL = [ROLES |-> <<>>, NAMES |-> <<>>]
    /\ CBX_RLS = <<>> /\ CBX_NMS = <<>> /\ FIELDS = 0
    /\ LST_MEM_MEMBERS = <<>> /\ CACHED_MEMBERS = <<>> /\ SAVE_STATE = TRUE
    /\ poolWriter = "idle"
    /\ MembersStarted
    /\ FldIdle

\* the entries a stored pool or an imported member list may hold
StoredRoles == { <<"R", "1">> }
StoredNames == { <<"A">>, <<"B">> }

\* the state after a start-up with a stored pool
Init ==
    /\ \E roles \in SeqsUpTo(StoredRoles, MaxPool) \ {<<>>}, names \in SeqsUpTo(StoredNames, MaxPool) :
          StartedWith(roles, names)
    /\ ParseIdle /\ FmtIdle
    /\ PureIdle

\* the fields and the exports of one run
Next ==
    \/ \E r \in 1..MaxFields, text \in RoleTexts : EditRole(r, text)
    \/ \E r \in 1..MaxFields, text \in NameTexts : EditName(r, text)
    \/ \E r \in 1..MaxFields, duplicate \in BOOLEAN : InsertField(r, duplicate)
    \/ \E r \in 1..MaxFields : RemoveField(r)
    \/ \E chosen \in BOOLEAN : toPlainText(chosen)
    \/ \E saved \in BOOLEAN : toPowerpoint(saved)

Spec == Init /\ [][Next]_vars

\* the member list, the names of the fields and the exports of one run
NextMembers ==
    \/ \E r \in 1..MaxPool, text \in NameTexts : EditName(r, text)
    \/ \E chosen \in BOOLEAN : toPlainText(chosen)
    \/ \E saved \in BOOLEAN : toPowerpoint(saved)
    \/ \E sel \in 1..MaxPool : removeMember(sel)
    \/ \E confirmed \in BOOLEAN : saveMemberList(confirmed)
    \/ \E confirmed \in BOOLEAN, chosen \in BOOLEAN : exportMemberList(confirmed, chosen)
    \/ \E valid \in BOOLEAN, list \in SeqsUpTo(StoredNames, MaxPool) : importMemberList(valid, list)

SpecMembers == Init /\ [][NextMembers]_vars

\* the texts of the fields and the entries of the stored pool of a merge
MergeRoleTexts   == { <<"R", "1">>, <<"R", "2">> }
MergeNameTexts   == { <<>>, <<"A">>, <<"B">>, <<"C">> }
MergeStoredNames == { <<"B">>, <<"C">>, <<"a">> }

\* a run that started with a stored pool and whose fields were edited to
\* any converted texts; the exports then merge the fields with the pool
InitMerge ==
    /\ \E roles \in SeqsUpTo(StoredRoles, MaxPool) \ {<<>>},
          names \in SeqsUpTo(MergeStoredNames, MaxPool),
          n \in 1..MaxFields :
          \E cbxr \in [1..n -> MergeRoleTexts], cbxn \in [1..n -> MergeNameTexts] :
             /\ RLS = roles /\ NMS = names
             /\ POOL = [ROLES |-> roles, NAMES |-> names]
             /\ CBX_RLS = cbxr /\ CBX_NMS = cbxn /\ FIELDS = n
             /\ BTN_ATVS = NewATVS(n) /\ BTN_REMS = NewREMS(n)
             /\ BTN_INSS = refreshStates_INSS(n, n)
             /\ REM_ENABLED = [k \in 1..n |-> ~(k = 1 /\ n <= 1)]
             /\ PREV_ACTIVE = None
             /\ ACTIVE_TXT = [Role |-> <<>>, Name |-> <<>>]
             /\ fldOp = "setup"
             /\ LST_MEM_MEMBERS = sortItems(names)
             /\ CACHED_MEMBERS = names
             /\ SAVE_STATE = TRUE
             /\ poolWriter = "startup"
    /\ MembersStarted
    /\ ParseIdle /\ FmtIdle
    /\ PureIdle

NextMerge ==
    \/ \E chosen \in BOOLEAN : toPlainText(chosen)
    \/ \E saved \in BOOLEAN : toPowerpoint(saved)

SpecMerge == InitMerge /\ [][NextMerge]_vars

\* The Members tab: the program starts with one of StoredPools, the operator
\* searches, adds, renames, removes and saves.
Ann  == <<"A", "n", "n">>
Anne == <<"A", "n", "n", "e">>
BO   == <<"B", "O">>

\* the member lists a stored file holds: sorted or not, with or without a
\* repeated name
StoredPools == { <<>>, <<Ann>>, <<BO>>, <<Ann, BO>>, <<BO, Ann>>, <<Ann, Ann>>, <<BO, BO>> }
\* what is typed into the search/add bar: "", " anne"
BarTexts    == { <<>>, <<" ", "a", "n", "n", "e">> }
\* what is typed into the rename dialog: "", "ann", "anne ", "bo"
RenameTexts == { <<>>, <<"a", "n", "n">>, <<"a", "n", "n", "e", " ">>, <<"b", "o">> }

InitEdit ==
    /\ \E names \in StoredPools : StartedWith(<< <<"R", "1">> >>, names)
    /\ ParseIdle /\ FmtIdle
    /\ PureIdle

NextEdit ==
    \/ \E text \in BarTexts : checkSearchAdd(text)
    \/ searchClicked
    \/ \E confirmed \in BOOLEAN : addNewMember(confirmed)
    \/ \E sel \in 1..MaxMembers : editMember(sel)
    \/ \E text \in RenameTexts, confirmed \in BOOLEAN : accept(text, confirmed)
    \/ reject
    \/ \E sel \in 1..MaxMembers : removeMember(sel)
    \/ \E confirmed \in BOOLEAN : saveMemberList(confirmed)

SpecEdit == InitEdit /\ [][NextEdit]_vars

\* the Members tab started with a pool of distinct names; the texts typed
\* differ from a member by a character that is not a letter: "bo." is typed
\* into the search/add bar, "b-o" and "ann" into the rename dialog
DistinctPools   == { <<>>, <<Ann>>, <<BO>>, <<Ann, BO>>, <<BO, Ann>> }
PoolBarTexts    == { <<>>, <<"b", "o", ".">> }
PoolRenameTexts == { <<>>, <<"b", "-", "o">>, <<"a", "n", "n">> }

InitPool ==
    /\ \E names \in DistinctPools : StartedWith(<< <<"R", "1">> >>, names)
    /\ ParseIdle /\ FmtIdle
    /\ PureIdle

NextPool ==
    \/ \E text \in PoolBarTexts : checkSearchAdd(text)
    \/ searchClicked
    \/ \E confirmed \in BOOLEAN : addNewMember(confirmed)
    \/ \E sel \in 1..MaxMembers : editMember(sel)
    \/ \E text \in PoolRenameTexts, confirmed \in BOOLEAN : accept(text, confirmed)
    \/ reject
    \/ \E sel \in 1..MaxMembers : removeMember(sel)
    \/ \E confirmed \in BOOLEAN : saveMemberList(confirmed)

SpecPool == InitPool /\ [][NextPool]_vars

\* tokens given to adjustNameFormat: the three prefixes, one with a period,
\* a full word, a word that starts with a prefix, ordinary words in several
\* casings
NameWords == { <<"b", "r", "o">>, <<"S", "I", "S">>, <<"p", "t", "r", ".">>,
               <<"b", "r", "o", "t", "h", "e", "r">>, <<"b", "r", "o", "w", "n">>,
               <<"j", "O", "h", "N">>, <<"A", "l">>, <<"x">> }
NameSeps  == { <<" ">>, <<" ", " ">> }
\* "bro john dela cruz", "brother john"
ExBroJohn     == <<"b", "r", "o", " ", "j", "o", "h", "n", " ", "d", "e", "l", "a", " ", "c", "r", "u", "z">>
ExBrotherJohn == <<"b", "r", "o", "t", "h", "e", "r", " ", "j", "o", "h", "n">>
\* the tokens joined by one or two blanks, with and without blanks around
NameArgs  == UNION { { Join(ws, sep), <<" ">> \o Join(ws, sep) \o <<" ">> } :
                         ws \in SeqsUpTo(NameWords, MaxTokens), sep \in NameSeps }
             \cup {ExBroJohn, ExBrotherJohn}

InitName ==
    /\ nameIn \in NameArgs
    /\ NAME1 = <<>> /\ NAME2 = <<>> /\ namePc = "in"
    /\ AppIdle /\ ParseIdle /\ FmtIdle /\ LoadIdle /\ LogIdle

NextName == AdjustOnce \/ AdjustTwice

SpecName == InitName /\ [][NextName]_vars

\* the start-up finds no data file, a file that is not JSON, or a file with
\* any pool
LoadRoles == StoredRoles \cup {DevelopedBy}

\* a pool of n roles "R01", "R02", ... as the exports of many services leave it
Digits == <<"0", "1", "2", "3", "4", "5", "6", "7", "8", "9">>
RoleNo(k) == <<"R", Digits[(k \div 10) + 1], Digits[(k % 10) + 1]>>
ManyRoles(n) == [k \in 1..n |-> RoleNo(k)]

StoredFiles == {Missing, Corrupt} \cup
               { [kind |-> "json", POOL |-> [ROLES |-> roles, NAMES |-> names]] :
                     roles \in SeqsUpTo(LoadRoles, MaxPool), names \in SeqsUpTo(StoredNames, MaxPool) }
               \cup
               { [kind |-> "json", POOL |-> [ROLES |-> ManyRoles(n), NAMES |-> <<>>]] :
                     n \in {FIELDS_MAX - 1, FIELDS_MAX, FIELDS_MAX + 1} }

InitLoad ==
    /\ FILE_DATA \in StoredFiles
    /\ DATA = Missing /\ loadPc = "check" /\ generated = 0
    /\ AppIdle /\ ParseIdle /\ FmtIdle /\ NameIdle /\ LogIdle

NextLoad == check \/ loadReturn \/ loadRegenerate \/ FieldsSetup

\* the start-up is sequential code: it goes on as long as it has a next step
SpecLoad == InitLoad /\ [][NextLoad]_vars /\ WF_vars(NextLoad)

\* the main window: Fields.setup with a pool that was loaded, then the
\* buttons of the rows are clicked
FieldPools == { [kind |-> "json", POOL |-> [ROLES |-> roles, NAMES |-> names]] :
                    roles \in SeqsUpTo(StoredRoles, MaxPool),
                    names \in SeqsUpTo({<<"A">>}, MaxPool) }

InitFields ==
    /\ FILE_DATA \in FieldPools
    /\ DATA = FILE_DATA /\ loadPc = "setup" /\ generated = 0
    /\ AppIdle /\ ParseIdle /\ FmtIdle /\ NameIdle /\ LogIdle

NextFields ==
    \/ FieldsSetup
    \/ \E r \in 1..MaxFields, duplicate \in BOOLEAN : InsertField(r, duplicate)
    \/ \E r \in 1..MaxFields : RemoveField(r)
    \/ \E r \in 1..MaxFields : lockUnlockField(r)
    \/ \E r \in 1..MaxFields : setActiveField(r)

SpecFields == InitFields /\ [][NextFields]_vars

\* the log directory holds any number of log files; at most one of them
\* cannot be removed and at most one is removed by another process
AtMostOne(S) == {{}} \cup {{f} : f \in S}

InitLogs ==
    /\ \E n \in 0..MaxLogs : LOG_FILES = 1..n
    /\ LOG_DENIED \in AtMostOne(LOG_FILES)
    /\ LOG_GONE \in AtMostOne(LOG_FILES)
    /\ deleteAll \in BOOLEAN
    /\ delPc = "call" /\ delLast = "none"
    /\ AppIdle /\ ParseIdle /\ FmtIdle /\ NameIdle /\ LoadIdle

NextLogs == deleteLogs \/ deleteOldestEnter \/ deleteOldest \/ deleteOldestReturn

\* deleteOldest is sequential code: it goes on as long as it has a next step
SpecLogs == InitLogs /\ [][NextLogs]_vars /\ WF_vars(NextLogs)

InitParse ==
    /\ SOURCE \in ParseTexts
    /\ CLEAN = <<>> /\ i = 0 /\ RESULT = <<>> /\ pc = "start"
    /\ AppIdle /\ FmtIdle
    /\ PureIdle

NextParse == ParseBegin \/ ParseSkip \/ ParseNamed \/ ParseBare \/ ParseReturn

SpecParse == InitParse /\ [][NextParse]_vars

InitFmt ==
    /\ fmtIn \in FmtTexts
    /\ fmtMode \in {ROLE_MODE, NAME_MODE}
    /\ fmtOut = <<>> /\ fmtOut2 = <<>> /\ fmtPc = "in"
    /\ AppIdle /\ ParseIdle
    /\ PureIdle

NextFmt == FmtOnce \/ FmtTwice

SpecFmt == InitFmt /\ [][NextFmt]_vars

(***************************************************************************)
(* Properties of the pool merge.                                           *)
(***************************************************************************)
\* m is the list cur followed by the entries of pool, in the order of pool,
\* that are no element of cur
IsMergeOf(m, cur, pool) ==
    LET extra == {j \in DOMAIN pool : \A k \in DOMAIN cur : cur[k] # pool[j]}
    IN  /\ Len(m) = Len(cur) + Cardinality(extra)
        /\ \A k \in DOMAIN cur : m[k] = cur[k]
        /\ \A j \in extra : m[Len(cur) + Cardinality({h \in extra : h <= j})] = pool[j]

NonBlank(list) == {x \in Range(list) : x # <<>>}

\* C1: after an export has saved to JSON, the persisted names are the texts
\* of the name fields (same order, blanks and repeats kept) followed by the
\* entries of the pool list NMS, in pool order, that are no element of them,
\* and the same for the roles and RLS; names [A,B] with pool [B,C] give
\* [A,B,C] and roles [R1,R2] with pool [R1] give [R1,R2].
C1_MergeForPersistence ==
    /\ poolWriter = "export" =>
          /\ IsMergeOf(POOL.NAMES, CBX_NMS, NMS)
          /\ IsMergeOf(POOL.ROLES, CBX_RLS, RLS)
    /\ getFieldData(<< <<"A">>, <<"B">> >>, << <<"B">>, <<"C">> >>) = << <<"A">>, <<"B">>, <<"C">> >>
    /\ getFieldData(<< <<"R", "1">>, <<"R", "2">> >>, << <<"R", "1">> >>) = << <<"R", "1">>, <<"R", "2">> >>

\* the example of C1 has been exported
C1_Witness ==
    /\ poolWriter = "export"
    /\ CBX_NMS = << <<"A">>, <<"B">> >> /\ NMS = << <<"B">>, <<"C">> >>
    /\ POOL.NAMES = << <<"A">>, <<"B">>, <<"C">> >>
    /\ CBX_RLS = << <<"R", "1">>, <<"R", "2">> >> /\ RLS = << <<"R", "1">> >>
    /\ POOL.ROLES = << <<"R", "1">>, <<"R", "2">> >>

\* C2: from one export to the next, whatever was edited in between, every
\* role and every name of the persisted pool is still in the persisted pool.
C2_NoPoolEntryLost ==
    [][(poolWriter = "export" /\ poolWriter' = "export") =>
          /\ NonBlank(POOL.NAMES) \subseteq NonBlank(POOL'.NAMES)
          /\ NonBlank(POOL.ROLES) \subseteq NonBlank(POOL'.ROLES)]_vars

\* C3: the export that follows saveMemberList or importMemberList persists
\* as POOL.NAMES the texts of the name fields followed by the entries of the
\* member list written to POOL.NAMES that are not among them.
C3_MergeUsesPoolAsLastWritten ==
    [][(poolWriter \in {"saveMemberList", "importMemberList"} /\ poolWriter' = "export") =>
          IsMergeOf(POOL'.NAMES, CBX_NMS, POOL.NAMES)]_vars

(***************************************************************************)
(* Properties of ParticipantParser.                                        *)
(***************************************************************************)
\* the lines of the input text, the indices of those that hold the
\* delimiter, and the position in RESULT of the entry of such a line
SrcLines       == SplitLines(SOURCE)
DelimLines     == {k \in DOMAIN SrcLines : Contains(SrcLines[k], DELIM)}
EntryIndex(k)  == Cardinality({j \in DelimLines : j <= k})
FirstIndex(s, c) == CHOOSE k \in DOMAIN s : s[k] = c /\ \A j \in 1..(k - 1) : s[j] # c
BeforeFirst(s, c) == SubSeq(s, 1, FirstIndex(s, c) - 1)
AfterFirst(s, c)  == SubSeq(s, FirstIndex(s, c) + 1, Len(s))
IsPrefix(a, b) == Len(a) <= Len(b) /\ SubSeq(b, 1, Len(a)) = a

OpeningPrayer == <<"O", "p", "e", "n", "i", "n", "g", " ", "P", "r", "a", "y", "e", "r">>
ClosingPrayer == <<"C", "l", "o", "s", "i", "n", "g", " ", "P", "r", "a", "y", "e", "r">>
JohnSmith     == <<"J", "o", "h", "n", " ", "S", "m", "i", "t", "h">>
AYLeader      == <<"A", "Y", " ", "L", "e", "a", "d", "e", "r">>

\* C4: parse emits exactly one entry per line that holds ':', in the order of
\* those lines: after the loop has passed the first i lines RESULT holds one
\* entry per delimiter line among them, at the end the role of the n-th entry
\* starts with the letters that stand before the ':' of the n-th delimiter
\* line, entries with equal roles stay apart, and a text without ':' gives
\* the empty sequence.
C4_OneEntryPerDelimLine ==
    /\ pc \in {"loop", "done"} => Len(RESULT) = Cardinality({k \in DelimLines : k <= i})
    /\ pc = "done" =>
          /\ Len(RESULT) = Cardinality(DelimLines)
          /\ \A k \in DelimLines :
                /\ EntryIndex(k) <= Len(RESULT)
                /\ IsPrefix(Lower(LettersOnly(BeforeFirst(SrcLines[k], DELIM))),
                            Lower(LettersOnly(RESULT[EntryIndex(k)][1])))
          /\ (~Contains(SOURCE, DELIM) => RESULT = <<>>)

\* two lines with the same role and a name each gave two equal entries
C4_Witness ==
    /\ pc = "done" /\ Len(RESULT) = 2 /\ Len(SrcLines) = 2
    /\ RESULT[1] = RESULT[2] /\ RESULT[1][2] # <<>>

\* the name the claim gives to the entry of the bare role line k
BareName(k) ==
    IF k < Len(SrcLines) /\ ~Contains(SrcLines[k + 1], DELIM)
    THEN fmtStr(RemoveChar(Strip(SrcLines[k + 1]), "@"), NAME_MODE)
    ELSE <<>>

\* C5: for a line whose text after the ':' holds no letter the emitted name
\* is formatWords(next stripped line without '@', NAME) when a next line
\* exists and holds no ':', and the empty string otherwise; the two examples
\* of the specification give the stated results.
C5_BareRoleName ==
    pc = "done" =>
        /\ \A k \in DelimLines :
              LettersOnly(AfterFirst(SrcLines[k], DELIM)) = <<>> =>
                  /\ EntryIndex(k) <= Len(RESULT)
                  /\ RESULT[EntryIndex(k)][2] = BareName(k)
        /\ (SOURCE = ExNextLine => RESULT = << <<OpeningPrayer, JohnSmith>> >>)
        /\ (SOURCE = ExTwoRoles => RESULT = << <<OpeningPrayer, <<>> >>, <<ClosingPrayer, <<>> >> >>)

\* a bare role line got its name from the line after it
C5_Witness ==
    /\ pc = "done"
    /\ \E k \in DelimLines :
          /\ LettersOnly(AfterFirst(SrcLines[k], DELIM)) = <<>>
          /\ k < Len(SrcLines)
          /\ EntryIndex(k) <= Len(RESULT)
          /\ RESULT[EntryIndex(k)][2] # <<>>

IsStr(s) == s \in Seq(Range(s))

\* C6: parse is total: it never raises: the loop stays within the lines, a
\* line with the delimiter has a second part to read, the access to the line
\* after the current one is never out of range; and what it holds and
\* returns is a sequence of (role, name) pairs.
C6_ParseTotal ==
    /\ pc # "IndexError"
    /\ pc \in {"loop", "done"} =>
          \A k \in DOMAIN RESULT : Len(RESULT[k]) = 2 /\ IsStr(RESULT[k][1]) /\ IsStr(RESULT[k][2])
    /\ pc = "loop" =>
          /\ i <= Len(LoopLines)
          /\ (i < Len(LoopLines) /\ Contains(CurLine, DELIM)) =>
                /\ Len(PART) >= 2
                /\ ~NextLineIndexError

\* parse returned after a bare role on the last line of a text that ends in a
\* blank line, where CLEAN.split(NL) and CLEAN.splitlines() differ in length
C6_Witness ==
    /\ pc = "done"
    /\ RESULT # <<>>
    /\ Len(SplitOn(CLEAN, NL)) > Len(SplitLines(CLEAN))
    /\ LettersOnly(AfterFirst(CLEAN, DELIM)) = <<>>

\* C7: a delimiter line is split on the first ':' only: with roleRaw the
\* trimmed text before the first ':' and nameRaw the trimmed text after it, a
\* line whose nameRaw holds a letter gives (formatWords(roleRaw, ROLE),
\* formatWords(nameRaw, NAME)), text after a second ':' included.
C7_SplitOnFirstDelim ==
    pc = "done" =>
        \A k \in DelimLines :
            LET roleRaw == Strip(BeforeFirst(SrcLines[k], DELIM))
                nameRaw == Strip(AfterFirst(SrcLines[k], DELIM))
            IN  LettersOnly(nameRaw) # <<>> =>
                    /\ EntryIndex(k) <= Len(RESULT)
                    /\ RESULT[EntryIndex(k)] = <<fmtStr(roleRaw, ROLE_MODE), fmtStr(nameRaw, NAME_MODE)>>

\* the word the claim emits for a token: unchanged when the token matches an
\* exclusion of its class whatever its case, name-cased otherwise
ClaimedWord(word, mode) ==
    LET w == IF mode = NAME_MODE THEN RemoveChar(word, "@") ELSE word
    IN  IF Lower(w) \in {Lower(x) : x \in FILTER_EXCLUSIONS[mode + 1]} THEN w ELSE NameCase(w)

\* C8: formatWords emits every white-space separated token unchanged when
\* its case-folded form is in the exclusion set of the class, and otherwise
\* with the first character upper-cased and the rest lower-cased, joined by
\* single spaces.
C8_CaseFoldedExclusion ==
    fmtPc \in {"once", "twice"} =>
        LET words == SplitWs(fmtIn)
        IN  fmtOut = Join([k \in DOMAIN words |-> ClaimedWord(words[k], fmtMode)], <<" ">>)

\* C9 as stated: parse("AY Leader: to John") = [("AY Leader", "to John")]
C9_NameTokenToUncased ==
    (pc = "done" /\ SOURCE = ExExclusion) =>
        RESULT = << <<AYLeader, <<"t", "o", " ", "J", "o", "h", "n">> >> >>

\* C9 (amended): the exclusion lists are honoured per class:
\* parse("AY Leader: to John") = [("AY Leader", "To John")], the role token
\* "AY" is left uncased, "to" is an exclusion of roles only and is cased as a
\* name; parse("to AY: TBA to") = [("to AY", "TBA To")], the name exclusion
\* "TBA" is left uncased.
C9_ExclusionsPerClass ==
    pc = "done" =>
        /\ (SOURCE = ExExclusion =>
               RESULT = << <<AYLeader, <<"T", "o", " ", "J", "o", "h", "n">> >> >>)
        /\ (SOURCE = ExNameExclusion =>
               RESULT = << << <<"t", "o", " ", "A", "Y">>, <<"T", "B", "A", " ", "T", "o">> >> >>)

\* parse returned for "AY Leader: to John"
C9_Witness ==
    pc = "done" /\ SOURCE = ExExclusion /\ Len(RESULT) = 1

\* every white-space separated token holds letters only
AllAlphabetic(s) == \A k \in DOMAIN s : IsLetter(s[k]) \/ IsSpace(s[k])

\* C10: formatWords is idempotent on alphabetic input, for both classes:
\* formatting the formatted text again gives the same text.
C10_FmtIdempotent ==
    (fmtPc = "twice" /\ AllAlphabetic(fmtIn)) => fmtOut2 = fmtOut

\* an alphabetic text with a case variant of an exclusion was changed by the
\* first pass and formatted a second time
C10_Witness ==
    /\ fmtPc = "twice" /\ AllAlphabetic(fmtIn)
    /\ fmtOut # fmtIn
    /\ \E k \in DOMAIN SplitWs(fmtIn) :
          /\ SplitWs(fmtIn)[k] \notin FILTER_EXCLUSIONS[fmtMode + 1]
          /\ Lower(SplitWs(fmtIn)[k]) \in {Lower(x) : x \in FILTER_EXCLUSIONS[fmtMode + 1]}

\* C11: the role of every emitted entry is the formatted text before the
\* first ':' of its line; in particular the entry of a line with no usable
\* name after the ':' has the role formatWords(roleRaw, ROLE), with nothing
\* of what stood after the ':' in it.
C11_RoleIsTextBeforeDelim ==
    pc = "done" =>
        \A k \in DelimLines :
            /\ EntryIndex(k) <= Len(RESULT)
            /\ RESULT[EntryIndex(k)][1] = fmtStr(Strip(BeforeFirst(SrcLines[k], DELIM)), ROLE_MODE)

(***************************************************************************)
(* Properties of the Members tab: duplicate detection, add, rename,        *)
(* remove.                                                                 *)
(***************************************************************************)
\* the exact-duplicate test of the specification: some entry of the pool,
\* trimmed and case-folded, equals the trimmed and case-folded name
isDuplicate(name, pool) ==
    \E k \in DOMAIN pool : Lower(Strip(pool[k])) = Lower(Strip(name))

\* the step is an add, or a rename with a new value that is not blank and
\* differs from the old one in more than case, and it did not raise
AddStep    == memOp'.handler = "addNewMember"
RenameStep == memOp'.handler = "accept" /\ memOp'.result \notin {"blank", "same", "ValueError"}

\* C12: on add and on rename alike the proposed name is answered with
\* DUPLICATE_EXACT exactly when some entry of the whole member pool, trimmed
\* and case-folded, equals the trimmed and case-folded name.
C12_ExactDuplicateAlike ==
    [][(AddStep \/ RenameStep) =>
           (memOp'.result = "DUPLICATE_EXACT" <=> isDuplicate(memOp'.text, CACHED_MEMBERS))]_vars

RECURSIVE EditDistance(_, _)
\* the edit distance of two strings with insertions and deletions at cost 1
\* (a substitution is a deletion and an insertion)
EditDistance(a, b) ==
    IF a = <<>> THEN Len(b)
    ELSE IF b = <<>> THEN Len(a)
    ELSE IF a[Len(a)] = b[Len(b)]
         THEN EditDistance(SubSeq(a, 1, Len(a) - 1), SubSeq(b, 1, Len(b) - 1))
         ELSE LET x == EditDistance(SubSeq(a, 1, Len(a) - 1), b)
                  y == EditDistance(a, SubSeq(b, 1, Len(b) - 1))
              IN  1 + (IF x <= y THEN x ELSE y)

\* ratio(lower(n), lower(name)) > 0.85, the ratio being
\* 1 - distance / (len(a) + len(b))
Similar(n, name) ==
    LET a == Lower(n)
        b == Lower(name)
    IN  IF Len(a) + Len(b) = 0 THEN TRUE
        ELSE 100 * (Len(a) + Len(b) - EditDistance(a, b)) > 85 * (Len(a) + Len(b))

\* the positions of pool but the first one that holds the excluded entry
\* (excluding is a sequence of no or one name)
Kept(pool, excluding) ==
    {k \in DOMAIN pool : excluding = <<>> \/ pool[k] # excluding[1]
                                          \/ \E j \in 1..(k - 1) : pool[j] = excluding[1]}

\* findSimilar of the specification: result holds, in the order of the pool,
\* exactly the entries at kept positions that are similar to name
IsFindSimilar(result, name, pool, excluding) ==
    \E f \in [DOMAIN result -> DOMAIN pool] :
        /\ \A k \in DOMAIN result : result[k] = pool[f[k]]
        /\ \A j, k \in DOMAIN result : j < k => f[j] < f[k]
        /\ {f[k] : k \in DOMAIN result} = {k \in Kept(pool, excluding) : Similar(pool[k], name)}

\* C13: what getSimilarNames returns to an add is findSimilar(name, pool)
\* and what it returns to a rename that reaches the similarity test is
\* findSimilar(name, pool, excluding the old value): exactly the entries of
\* the pool, but the excluded one, whose ratio to the name is above 0.85, in
\* the order of the pool; nothing for an empty pool.
C13_FindSimilar ==
    [][/\ AddStep =>
             /\ IsFindSimilar(memOp'.similar, Strip(memOp'.text), CACHED_MEMBERS, <<>>)
             /\ (CACHED_MEMBERS = <<>> => memOp'.similar = <<>>)
       /\ (memOp'.handler = "accept" /\ memOp'.result \in {"DUPLICATE_SIMILAR", "renamed"}) =>
             IsFindSimilar(memOp'.similar, Strip(memOp'.text), CACHED_MEMBERS, <<DLG_RENAME.OLD_NAME>>)]_vars

\* an add found a similar name in a pool that also holds a name that is not
\* similar
C13_Witness ==
    /\ memOp.handler = "addNewMember" /\ memOp.result = "DUPLICATE_SIMILAR"
    /\ memOp.similar # <<>>
    /\ \E k \in DOMAIN CACHED_MEMBERS : ~Similar(CACHED_MEMBERS[k], Strip(memOp.text))

\* the step ended in a rejection: the name was an exact duplicate, or
\* similar names were found and the operator did not confirm
Rejected == memOp'.result \in {"DUPLICATE_EXACT", "DUPLICATE_SIMILAR"}

\* C14: duplicate and similarity detection is pure: when an add or a rename
\* ends after its calls of getSimilarNames / hasDuplicateName (a rejection),
\* CACHED_MEMBERS holds the same elements in the same order as before, and
\* no add or rename step, whatever its outcome, changes POOL.NAMES, be it
\* the same list as CACHED_MEMBERS or not.
C14_DetectionIsPure ==
    [][(memOp'.handler \in {"addNewMember", "accept"}) =>
           /\ POOL'.NAMES = POOL.NAMES
           /\ (Rejected => CACHED_MEMBERS' = CACHED_MEMBERS)]_vars

\* C15: detection never throws: in no state reached by adds, renames
\* (accepted, rejected or cancelled), removals and searches has a call of
\* getSimilarNames / hasDuplicateName raised, with or without an entry to
\* exclude, with or without an empty pool.
C15_DetectionNeverRaises == memOp.result # "ValueError"

\* C16: a rejected add (the name is an exact duplicate, or similar names
\* exist and the operator does not confirm) changes nothing: the pool, the
\* displayed list, the text of the bar, the saved flag and the stored pool
\* are as before.
C16_RejectedAddChangesNothing ==
    [][(AddStep /\ Rejected) =>
           UNCHANGED <<appVars, LNE_MEM_SEARCHADD, LAST_INPUT, BTN_MEM_ADD, DLG_RENAME,
                       NAMES_IS_CACHED>>]_vars

\* an add was rejected as an exact duplicate while a search hid some members
C16_Witness ==
    /\ memOp.handler = "addNewMember" /\ memOp.result = "DUPLICATE_EXACT"
    /\ Len(LST_MEM_MEMBERS) < Len(CACHED_MEMBERS)

\* C17: a rejected rename (the new name is an exact duplicate, or similar
\* names exist and the operator does not confirm) changes nothing: the pool
\* and the displayed list are as before the attempt, so that a later save
\* persists the pool as it was.
C17_RejectedRenameChangesNothing ==
    [][(memOp'.handler = "accept" /\ Rejected) =>
           UNCHANGED <<appVars, LNE_MEM_SEARCHADD, LAST_INPUT, BTN_MEM_ADD, DLG_RENAME,
                       NAMES_IS_CACHED>>]_vars

\* how often the name x stands in list
Count(x, list) == Cardinality({k \in DOMAIN list : list[k] = x})

\* list is in the order of the list widget
IsSorted(list) == \A j, k \in DOMAIN list : j < k => ~TextLess(list[k], list[j])

\* C18: an accepted add inserts exactly one entry: when addNewMember
\* proceeds, the pool afterwards holds what it held before and one entry
\* more, the proposed text in name casing (" anne" gives "Anne"), and it is
\* in sorted order.
C18_AcceptedAddInsertsOne ==
    [][(AddStep /\ memOp'.result = "added") =>
           LET new == adjustNameFormat(Strip(memOp'.text))
           IN  /\ (Strip(memOp'.text) = <<"a", "n", "n", "e">> => new = Anne)
               /\ Len(CACHED_MEMBERS') = Len(CACHED_MEMBERS) + 1
               /\ Count(new, CACHED_MEMBERS') = Count(new, CACHED_MEMBERS) + 1
               /\ \A k \in DOMAIN CACHED_MEMBERS :
                     CACHED_MEMBERS[k] # new =>
                         Count(CACHED_MEMBERS[k], CACHED_MEMBERS') = Count(CACHED_MEMBERS[k], CACHED_MEMBERS)
               /\ IsSorted(CACHED_MEMBERS')
               /\ LST_MEM_MEMBERS' = CACHED_MEMBERS']_vars

\* a name was added after the operator confirmed, and it stands behind the
\* member that was there
C18_Witness ==
    /\ memOp.handler = "addNewMember" /\ memOp.result = "added" /\ memOp.similar # <<>>
    /\ Len(CACHED_MEMBERS) = 2 /\ CACHED_MEMBERS[2] = Anne

\* C19: a rename whose new value equals the old value but for case is a
\* no-op: the pool holds the same names as before, the list shows what it
\* showed, whatever the casing of the stored value, and no duplicate or
\* similarity dialog is shown.
C19_SameNameRenameIsNoOp ==
    [][(memOp'.handler = "accept" /\ memOp'.result = "same") =>
           /\ sortItems(CACHED_MEMBERS') = sortItems(CACHED_MEMBERS)
           /\ LST_MEM_MEMBERS' = LST_MEM_MEMBERS
           /\ POOL' = POOL
           /\ memOp'.similar = <<>>]_vars

\* C20: removal is unconditional: removeMember takes the selected entry out
\* at once, with no confirmation and no duplicate check (the step has one
\* outcome and leaves no dialog open); right after it the list shows one
\* occurrence of the name less than before, the pool is what the list shows,
\* and a name that the list held once is not in the pool.
C20_RemovalUnconditional ==
    [][(memOp'.handler = "removeMember") =>
           LET name == memOp'.text
           IN  /\ memOp'.result = "removed" /\ ~DLG_RENAME'.open
               /\ Count(name, LST_MEM_MEMBERS) >= 1
               /\ Len(LST_MEM_MEMBERS') = Len(LST_MEM_MEMBERS) - 1
               /\ Count(name, LST_MEM_MEMBERS') = Count(name, LST_MEM_MEMBERS) - 1
               /\ sortItems(CACHED_MEMBERS') = LST_MEM_MEMBERS'
               /\ (Count(name, LST_MEM_MEMBERS) = 1 => Count(name, CACHED_MEMBERS') = 0)]_vars

\* one of two members was removed
C20_Witness ==
    /\ memOp.handler = "removeMember" /\ memOp.result = "removed"
    /\ Len(CACHED_MEMBERS) = 1 /\ memOp.text \notin Range(CACHED_MEMBERS)

(***************************************************************************)
(* Properties of Members.adjustNameFormat.                                 *)
(***************************************************************************)
\* the first token takes a period: lower-cased it starts with "bro", "sis"
\* or "ptr", is none of the full words and does not end with a period
TakesPeriod(token) ==
    /\ \E prefix \in { <<"b", "r", "o">>, <<"s", "i", "s">>, <<"p", "t", "r">> } : IsPrefix(prefix, Lower(token))
    /\ Lower(token) \notin { <<"b", "r", "o", "t", "h", "e", "r">>, <<"s", "i", "s", "t", "e", "r">>, <<"p", "a", "s", "t", "o", "r">> }
    /\ token[Len(token)] # "."

\* the name format of the specification: the tokens in name case, a period
\* on the first one when it takes one, joined by single blanks
NameFormat(text) ==
    LET tokens == SplitWs(text)
        cased  == [k \in DOMAIN tokens |->
                      Upper(SubSeq(tokens[k], 1, 1)) \o Lower(SubSeq(tokens[k], 2, Len(tokens[k])))]
    IN  IF cased = <<>> THEN <<>>
        ELSE IF TakesPeriod(cased[1])
             THEN Join(<<cased[1] \o <<".">>>> \o Tail(cased), <<" ">>)
             ELSE Join(cased, <<" ">>)

\* C21: adjustNameFormat(name) is the name format: every token with its
\* first letter upper-cased and the rest lower-cased, joined by single
\* blanks, a period appended to the first token, and nothing else added,
\* exactly when that token takes one; for every input, a single token and
\* the empty string included; "bro john dela cruz" gives
\* "Bro. John Dela Cruz" and "brother john" gives "Brother John".
C21_AdjustNameFormat ==
    namePc \in {"once", "twice"} =>
        /\ NAME1 = NameFormat(nameIn)
        /\ (nameIn = ExBroJohn => NAME1 = <<"B", "r", "o", ".", " ", "J", "o", "h", "n", " ", "D", "e", "l", "a", " ", "C", "r", "u", "z">>)
        /\ (nameIn = ExBrotherJohn => NAME1 = <<"B", "r", "o", "t", "h", "e", "r", " ", "J", "o", "h", "n">>)

\* C29: adjustNameFormat is idempotent: formatting a formatted name again
\* gives the same name, for any number of tokens.
C29_AdjustIdempotent == namePc = "twice" => NAME2 = NAME1

(***************************************************************************)
(* Properties of the pool store.                                           *)
(***************************************************************************)
\* Data.load has returned
Loaded == loadPc \in {"setup", "done"}

\* C23: loading the pool store always terminates and a corrupt store is
\* regenerated: Data.load returns after finitely many iterations; when the
\* file was not valid JSON what it returns is the default data, with the one
\* role "Developed by" and the one name "MSDAC Systems"; a store that is
\* valid JSON is returned as it is and is never regenerated.
C23_LoadTerminates ==
    /\ <>Loaded
    /\ [](loadPc = "setup" =>
             /\ DATA = FILE_DATA
             /\ (generated > 0 =>
                    DATA.POOL = [ROLES |-> <<DevelopedBy>>, NAMES |-> <<MSDACSystems>>]))
    /\ [][FILE_DATA.kind = "json" => FILE_DATA' = FILE_DATA]_vars


(***************************************************************************)
(* Claims about the rows of fields.                                        *)
(***************************************************************************)
Marked == {k \in DOMAIN BTN_ATVS : BTN_ATVS[k] = "BTN_ATVS_SELECTED"}
Locked == {k \in DOMAIN BTN_REMS : BTN_REMS[k] = "BTN_REMS_LOCKED"}

\* C26: after any interleaving of setActiveField, insertField (through the
\* insert button) and removeField at most one field is marked active
\* (objectName "BTN_ATVS_SELECTED")
C26_AtMostOneActive == Cardinality(Marked) <= 1

\* the five lists of a row
RowLists == <<CBX_RLS, CBX_NMS, BTN_REMS, BTN_INSS, BTN_ATVS>>

\* C27: after Fields.setup, for a pool of any size, and after any enabled
\* insert or remove, FIELDS is the length of each of CBX_RLS, CBX_NMS,
\* BTN_REMS, BTN_INSS and BTN_ATVS and 1 <= FIELDS <= FIELDS_MAX; the insert
\* buttons are disabled when FIELDS >= FIELDS_MAX and the remove button is
\* disabled when FIELDS <= 1
C27_FieldsInRange ==
    fldOp \in {"setup", "insertField", "removeField"} =>
        /\ \A l \in DOMAIN RowLists : Len(RowLists[l]) = FIELDS
        /\ 1 <= FIELDS /\ FIELDS <= FIELDS_MAX
        /\ (FIELDS >= FIELDS_MAX => \A k \in DOMAIN BTN_INSS : ~BTN_INSS[k])
        /\ (FIELDS <= 1 => \A k \in DOMAIN REM_ENABLED : ~REM_ENABLED[k])

\* C28: lockUnlockField toggles the lock of the field; removeField on a
\* locked field changes nothing (the field stays, FIELDS stays); a field
\* leaves the rows only while it is not locked
C28_LockedFieldStays ==
    [][/\ (fldOp' = "lockUnlockField" =>
              /\ Len(BTN_REMS') = Len(BTN_REMS)
              /\ \E r \in DOMAIN BTN_REMS :
                    /\ (r \in Locked') # (r \in Locked)
                    /\ \A k \in DOMAIN BTN_REMS \ {r} : BTN_REMS'[k] = BTN_REMS[k])
       /\ (fldOp' = "removeField: locked" => UNCHANGED <<RowLists, FIELDS>>)
       /\ (Len(BTN_REMS') < Len(BTN_REMS) => Cardinality(Locked') = Cardinality(Locked))
      ]_vars

\* a locked field was asked to go and is still there
C28_Witness ==
    /\ fldOp = "removeField: locked"
    /\ Locked # {}
    /\ FIELDS > 1


(***************************************************************************)
(* Claims about the log files.                                             *)
(***************************************************************************)
\* C30: FileManager.deleteOldest leaves its loop for every set of log files,
\* also when removing the oldest file fails with PermissionError or
\* FileNotFoundError, and then at most threshold files are left (none when
\* deleteAll is set)
C30_DeleteOldestTerminates ==
    /\ <>(delPc = "done")
    /\ [](delPc = "done" => Cardinality(LOG_FILES) <= threshold)


(***************************************************************************)
(* Claims about the member cache and the save flag.                        *)
(***************************************************************************)
\* the member a handler that just ran was asked to remove or to rename
Touched ==
    IF memOp'.handler = "removeMember" THEN {memOp'.text}
    ELSE IF memOp'.handler = "accept" THEN {DLG_RENAME.OLD_NAME}
    ELSE {}

\* C24: the member cache does not depend on the search filter: after a text
\* is typed into the search bar, after an add, a rename and a remove,
\* CACHED_MEMBERS holds every member it held before that was not itself
\* removed or renamed; a member the search hides is not lost
C24_CacheKeepsHidden ==
    [][memOp'.handler \in {"checkSearchAdd", "addNewMember", "accept", "removeMember"} =>
          \A m \in Range(CACHED_MEMBERS) \ Touched : m \in Range(CACHED_MEMBERS')]_vars


\* C25: SAVE_STATE is a sound "nothing to save" flag.  A save leaves
\* SAVE_STATE true with POOL.NAMES equal to CACHED_MEMBERS, and from a pool
\* that a save wrote, an action that makes POOL.NAMES and CACHED_MEMBERS
\* differ (an add, a rename, a remove, an export from the main window that
\* rewrites POOL.NAMES) leaves SAVE_STATE false; so after at least one save
\* SAVE_STATE is true only while POOL.NAMES equals CACHED_MEMBERS
C25_SaveStateSound ==
    [][/\ (memOp' # memOp /\ memOp'.handler = "saveMemberList" /\ memOp'.result = "saved" =>
              SAVE_STATE' /\ POOL'.NAMES = CACHED_MEMBERS')
       /\ (/\ poolWriter = "saveMemberList"
           /\ POOL.NAMES = CACHED_MEMBERS
           /\ POOL'.NAMES # CACHED_MEMBERS'
           => ~SAVE_STATE')
      ]_vars


\* the comparison of two names: case-folded, without the characters that
\* are not letters
SameName(a, b) == LettersOnly(Lower(a)) = LettersOnly(Lower(b))
NoTwoEqual(pool) == \A j, k \in DOMAIN pool : j # k => ~SameName(pool[j], pool[k])

\* C22: the NAMES pool stays free of duplicates: started from a pool with no
\* two names equal after case-folding and removal of the characters that
\* are not letters, after any sequence of add, rename and remove, with any
\* answers to the dialogs, the pool still has no two names equal under that
\* comparison
C22_PoolHasNoDuplicates ==
    /\ NoTwoEqual(CACHED_MEMBERS)
    /\ NoTwoEqual(POOL.NAMES)

=============================================================================
